---- MODULE Spec2Model ----
(***************************************************************************)
(* Model of client-data-compiler: the validator (utils/validators.go and   *)
(* services.validationService), the in-memory repository, the client       *)
(* service store, and the worker pool of ValidateClientsConcurrent.        *)
(*                                                                         *)
(* Go strings are modelled as sequences of one-character strings, so that  *)
(* trimming, case folding, substring search and digit tests are computed.  *)
(* Go slices are 0-based; sequences here are 1-based, so slot i of a slice *)
(* is element i+1 of the sequence.  The job queue carries Go indices.      *)
(***************************************************************************)
EXTENDS Integers, Sequences, FiniteSets, TLC

(***************************************************************************)
(* Characters and the strings package                                      *)
(***************************************************************************)
Digits == {"0", "1", "2", "3", "4", "5", "6", "7", "8", "9"}

UpperSeq == << "A", "B", "C", "D", "E", "F", "G", "H", "I", "J", "K", "L", "M",
               "N", "O", "P", "Q", "R", "S", "T", "U", "V", "W", "X", "Y", "Z" >>

LowerSeq == << "a", "b", "c", "d", "e", "f", "g", "h", "i", "j", "k", "l", "m",
               "n", "o", "p", "q", "r", "s", "t", "u", "v", "w", "x", "y", "z" >>

Letters == {UpperSeq[i] : i \in 1..26} \cup {LowerSeq[i] : i \in 1..26}

\* the accented letters the name pattern lists, written without diacritics
AccentedLetters == {"a'", "e'", "i'", "o'", "u'", "A'", "E'", "I'", "O'", "U'", "n~", "N~"}

Whitespace == {" ", "\t", "\n", "\r"}

IsSpace(c) == c \in Whitespace

IsDigit(c) == c \in Digits

\* strings.ToLower on one ASCII character
LowerOf == [c \in {UpperSeq[i] : i \in 1..26} |->
               LowerSeq[CHOOSE i \in 1..26 : UpperSeq[i] = c]]

ToLowerChar(c) == IF c \in DOMAIN LowerOf THEN LowerOf[c] ELSE c

ToLower(s) == [i \in 1..Len(s) |-> ToLowerChar(s[i])]

RECURSIVE TrimLeft(_)
TrimLeft(s) ==
    IF s = <<>> THEN s
    ELSE IF IsSpace(Head(s)) THEN TrimLeft(Tail(s)) ELSE s

RECURSIVE TrimRight(_)
TrimRight(s) ==
    IF s = <<>> THEN s
    ELSE IF IsSpace(s[Len(s)]) THEN TrimRight(SubSeq(s, 1, Len(s) - 1)) ELSE s

TrimSpace(s) == TrimRight(TrimLeft(s))

\* strings.Contains(h, n)
Contains(h, n) ==
    \E i \in 0..(Len(h) - Len(n)) : SubSeq(h, i + 1, i + Len(n)) = n

HasSuffix(s, suf) ==
    Len(s) >= Len(suf) /\ SubSeq(s, Len(s) - Len(suf) + 1, Len(s)) = suf

\* regexp `\s+` replaced by one space
RECURSIVE CollapseSpaces(_)
CollapseSpaces(s) ==
    IF s = <<>> THEN s
    ELSE IF IsSpace(Head(s)) THEN <<" ">> \o CollapseSpaces(TrimLeft(s))
    ELSE <<Head(s)>> \o CollapseSpaces(Tail(s))

\* CleanString that replaces each pair of blanks by one blank, once
\* (strings.ReplaceAll(s, "  ", " ") in place of the `\s+` pattern)
RECURSIVE CollapsePairs(_)
CollapsePairs(s) ==
    IF Len(s) < 2 THEN s
    ELSE IF IsSpace(s[1]) /\ IsSpace(s[2])
         THEN <<" ">> \o CollapsePairs(SubSeq(s, 3, Len(s)))
         ELSE <<s[1]>> \o CollapsePairs(Tail(s))

CleanStringOnePass(s) == CollapsePairs(TrimSpace(s))

CleanString(s) == CollapseSpaces(TrimSpace(s))

\* regexp `[^\d]` replaced by nothing
RECURSIVE StripNonDigits(_)
StripNonDigits(s) ==
    IF s = <<>> THEN s
    ELSE IF IsDigit(Head(s)) THEN <<Head(s)>> \o StripNonDigits(Tail(s))
    ELSE StripNonDigits(Tail(s))

AllIn(s, set) == \A i \in 1..Len(s) : s[i] \in set

\* strconv.Atoi succeeds: an optional sign followed by one or more decimal
\* digits (the values used here are far below the 64-bit range)
AtoiOk(s) ==
    LET body == IF s # <<>> /\ Head(s) \in {"+", "-"} THEN Tail(s) ELSE s
    IN  body # <<>> /\ AllIn(body, Digits)

(***************************************************************************)
(* utils/validators.go: each rule returns (valid, message)                 *)
(***************************************************************************)
Ok == [valid |-> TRUE, text |-> ""]

Fail(text) == [valid |-> FALSE, text |-> text]

ValidateClientKey(clave) ==
    LET c == TrimSpace(clave)
    IN  IF c = <<>> THEN Fail("La clave no puede estar vacia")
        ELSE IF ~AtoiOk(c) THEN Fail("La clave debe ser un numero valido")
        ELSE Ok

NameChars == Letters \cup AccentedLetters \cup Whitespace \cup {".", "'", "-"}

ValidateClientName(nombre) ==
    LET n == TrimSpace(nombre)
    IN  IF n = <<>> THEN Fail("El nombre no puede estar vacio")
        ELSE IF ~AllIn(n, NameChars)
             THEN Fail("El nombre solo puede contener letras, espacios y caracteres especiales basicos")
        ELSE IF \E i \in 1..Len(n) : IsDigit(n[i])
             THEN Fail("El nombre no puede contener numeros")
        ELSE Ok

AllowedDomains ==
    { <<"@", "g", "m", "a", "i", "l", ".", "c", "o", "m">>,
      <<"@", "h", "o", "t", "m", "a", "i", "l", ".", "c", "o", "m">>,
      <<"@", "o", "u", "t", "l", "o", "o", "k", ".", "c", "o", "m">>,
      <<"@", "y", "a", "h", "o", "o", ".", "c", "o", "m">>,
      <<"@", "l", "i", "v", "e", ".", "c", "o", "m">>,
      <<"@", "i", "c", "l", "o", "u", "d", ".", "c", "o", "m">>,
      <<"@", "m", "s", "n", ".", "c", "o", "m">> }

EmailLocalChars == Letters \cup Digits \cup {".", "_", "%", "+", "-"}

EmailDomainChars == Letters \cup Digits \cup {".", "-"}

\* ^[a-zA-Z0-9._%+-]+@[a-zA-Z0-9.-]+\.[a-zA-Z]{2,}$
EmailRegexMatch(s) ==
    \E at \in 2..Len(s) : \E dot \in (at + 2)..(Len(s) - 2) :
        /\ s[at] = "@"
        /\ s[dot] = "."
        /\ AllIn(SubSeq(s, 1, at - 1), EmailLocalChars)
        /\ AllIn(SubSeq(s, at + 1, dot - 1), EmailDomainChars)
        /\ AllIn(SubSeq(s, dot + 1, Len(s)), Letters)

ValidateEmail(correo) ==
    LET c == TrimSpace(ToLower(correo))
    IN  IF c = <<>> THEN Fail("El correo no puede estar vacio")
        ELSE IF ~EmailRegexMatch(c)
             THEN Fail("El formato del correo electronico no es valido")
        ELSE IF ~\E d \in AllowedDomains : HasSuffix(c, d)
             THEN Fail("El dominio del correo no esta permitido")
        ELSE Ok

AllowedAreaCodes ==
    { <<"9", "1", "6">>, <<"9", "1", "7">>, <<"9", "1", "8">>, <<"9", "1", "9">>,
      <<"9", "3", "2">>, <<"9", "3", "4">>, <<"9", "6", "1">>, <<"9", "6", "2">>,
      <<"9", "6", "3">>, <<"9", "6", "4">>, <<"9", "6", "5">>, <<"9", "6", "6">>,
      <<"9", "6", "7">>, <<"9", "6", "8">>, <<"9", "9", "2">>, <<"9", "9", "4">> }

ValidatePhone(telefono) ==
    LET t == TrimSpace(telefono)
        cleanPhone == StripNonDigits(t)
    IN  IF t = <<>> THEN Fail("El telefono no puede estar vacio")
        ELSE IF cleanPhone = <<>>
             THEN Fail("El telefono solo puede contener numeros")
        ELSE IF Len(cleanPhone) < 10
             THEN Fail("El telefono debe tener al menos 10 digitos")
        ELSE IF Len(cleanPhone) >= 3 /\ SubSeq(cleanPhone, 1, 3) \notin AllowedAreaCodes
             THEN Fail("La lada del telefono no es valida para Chiapas")
        ELSE Ok

(***************************************************************************)
(* The strings the operations are driven with                              *)
(***************************************************************************)
K42 == <<"4", "2">>

K7 == <<"7">>

K1a == <<"1", "a">>

NAna == <<"A", "n", "a">>

NAnLi == <<"A", "n", " ", " ", " ", " ", " ", "L", "i">>

NA1 == <<"A", "1">>

EGmail == <<"a", "@", "g", "m", "a", "i", "l", ".", "c", "o", "m">>

EOther == <<"a", "@", "b", ".", "c", "o", "m">>

P961 == <<"9", "6", "1", "-", "1", "2", "3", "-", "4", "5", "6", "7">>

P555 == <<"5", "5", "5", "-", "1", "2", "3", "-", "4", "5", "6", "7">>

P961x == <<"9", "6", "1", "-", "1", "2", "3", "-", "4", "5", "6", "7", "x">>

\* filter texts
TAN == <<"A", "N">>

Txyz == <<"x", "y", "z">>

T4 == <<"4">>

TGMAIL == <<"G", "M", "A", "I", "L">>

T961 == <<"9", "6", "1">>

TX == <<"X">>

RawStrings == {<<>>, K42, K7, K1a, NAna, NAnLi, NA1, EGmail, EOther, P961, P555, P961x,
               TAN, Txyz, T4, TGMAIL, T961, TX}

\* S with what one more cleaning makes of its strings
WithCleaned(S) == S \cup {CleanString(s) : s \in S}

\* every string a field or a filter text can hold: the inputs, trimmed, and
\* cleaned by the validation on upload and by the revalidations after it
Strings ==
    WithCleaned(WithCleaned(WithCleaned(RawStrings \cup {TrimSpace(s) : s \in RawStrings})))

(***************************************************************************)
(* The utils functions tabulated over Strings (each table is the function  *)
(* above it, evaluated once per string instead of once per call)           *)
(***************************************************************************)
KeyRule == [s \in Strings |-> ValidateClientKey(s)]

NameRule == [s \in Strings |-> ValidateClientName(s)]

EmailRule == [s \in Strings |-> ValidateEmail(s)]

PhoneRule == [s \in Strings |-> ValidatePhone(s)]

Cleaned == [s \in Strings |-> CleanString(s)]

Trimmed == [s \in Strings |-> TrimSpace(s)]

Lowered == [s \in Strings |-> ToLower(s)]

(***************************************************************************)
(* models.Client and its methods                                           *)
(***************************************************************************)
Fields == {"clave", "nombre", "correo", "telefono"}

\* an error message; the duplicate-key message embeds the key it reports
Msg(text) == [text |-> text, key |-> <<>>]

DupMsg(key) == [text |-> "Clave duplicada: ", key |-> key]

NoErrors == [f \in {} |-> Msg("")]

Client(id, clave, nombre, correo, telefono, row, now) ==
    [ID |-> id, Clave |-> clave, Nombre |-> nombre, Correo |-> correo,
     Telefono |-> telefono, Errors |-> NoErrors, IsValid |-> TRUE,
     RowNumber |-> row, CreatedAt |-> now, UpdatedAt |-> now]

\* Client.AddError without the validity update (a dropped assignment)
AddErrorKeepsFlag(c, field, msg) ==
    [c EXCEPT !.Errors = [f \in (DOMAIN c.Errors) \cup {field} |->
                             IF f = field THEN msg ELSE c.Errors[f]]]

AddError(c, field, msg) ==
    [c EXCEPT !.Errors = [f \in (DOMAIN c.Errors) \cup {field} |->
                             IF f = field THEN msg ELSE c.Errors[f]],
              !.IsValid = FALSE]

ClearErrors(c) == [c EXCEPT !.Errors = NoErrors, !.IsValid = TRUE]

HasError(c, field) == field \in DOMAIN c.Errors

(***************************************************************************)
(* services.validationService                                              *)
(***************************************************************************)
AddIfInvalid(c, field, verdict) ==
    IF verdict.valid THEN c ELSE AddError(c, field, Msg(verdict.text))

\* ValidateClient that returns at the first rule that rejects its field
ValidateClientFailFast(client) ==
    LET c0 == ClearErrors(client)
        c1 == AddIfInvalid(c0, "clave", KeyRule[c0.Clave])
        c2 == [c1 EXCEPT !.Nombre = Cleaned[c1.Nombre]]
        c3 == AddIfInvalid(c2, "nombre", NameRule[c2.Nombre])
        c4 == [c3 EXCEPT !.Correo = Cleaned[c3.Correo]]
        c5 == AddIfInvalid(c4, "correo", EmailRule[c4.Correo])
        c6 == [c5 EXCEPT !.Telefono = Cleaned[c5.Telefono]]
        c7 == AddIfInvalid(c6, "telefono", PhoneRule[c6.Telefono])
    IN  IF ~c1.IsValid THEN c1
        ELSE IF ~c3.IsValid THEN c3
        ELSE IF ~c5.IsValid THEN c5
        ELSE [c7 EXCEPT !.IsValid = (DOMAIN c7.Errors = {})]

ValidateClient(client) ==
    LET c0 == ClearErrors(client)
        c1 == AddIfInvalid(c0, "clave", KeyRule[c0.Clave])
        c2 == [c1 EXCEPT !.Nombre = Cleaned[c1.Nombre]]
        c3 == AddIfInvalid(c2, "nombre", NameRule[c2.Nombre])
        c4 == [c3 EXCEPT !.Correo = Cleaned[c3.Correo]]
        c5 == AddIfInvalid(c4, "correo", EmailRule[c4.Correo])
        c6 == [c5 EXCEPT !.Telefono = Cleaned[c5.Telefono]]
        c7 == AddIfInvalid(c6, "telefono", PhoneRule[c6.Telefono])
    IN  [c7 EXCEPT !.IsValid = (DOMAIN c7.Errors = {})]

\* sequential validation that fills the result from its far end
ValidateClientsReversed(clients) ==
    [i \in 1..Len(clients) |-> ValidateClient(clients[Len(clients) + 1 - i])]

\* sequential validation, in input order
ValidateClients(clients) == [i \in 1..Len(clients) |-> ValidateClient(clients[i])]

(***************************************************************************)
(* clientService.checkDuplicateKeys                                        *)
(***************************************************************************)
\* keyCount: non-empty key -> the slots holding it
KeyCount(clients) ==
    [k \in {clients[i].Clave : i \in {j \in 1..Len(clients) : clients[j].Clave # <<>>}} |->
        {i \in 1..Len(clients) : clients[i].Clave = k}]

\* the pass that spares the first holder of a shared key
checkDuplicateKeysSparesFirst(clients) ==
    LET keyCount == KeyCount(clients)
    IN  [i \in 1..Len(clients) |->
            IF /\ clients[i].Clave \in DOMAIN keyCount
               /\ Cardinality(keyCount[clients[i].Clave]) > 1
               /\ \E j \in keyCount[clients[i].Clave] : j < i
            THEN AddError(clients[i], "clave", DupMsg(clients[i].Clave))
            ELSE clients[i]]

checkDuplicateKeys(clients) ==
    LET keyCount == KeyCount(clients)
    IN  [i \in 1..Len(clients) |->
            IF /\ clients[i].Clave \in DOMAIN keyCount
               /\ Cardinality(keyCount[clients[i].Clave]) > 1
            THEN AddError(clients[i], "clave", DupMsg(clients[i].Clave))
            ELSE clients[i]]

(***************************************************************************)
(* Bounds and the inputs the operations are driven with                    *)
(***************************************************************************)
\* data rows of an uploaded sheet
MaxRows == 2

\* identifiers the repository hands out before the model stops creating
MaxID == 2

\* records of one BatchCreate / BatchUpdate call
MaxBatch == 2

\* readings of time.Now() are 0..MaxClock
MaxClock == 1

\* records of one list handed to ValidateClientsConcurrent
MaxList == 3

\* The list length from which ValidateClientsConcurrent uses the worker pool,
\* and the size of the pool.  The code has 100 and 10; the model explores the
\* same algorithm with a smaller threshold and pool, both at most MaxList.
Threshold == 2

NumWorkers == 2

\* sheet rows: <<clave, nombre, correo, telefono>>
RowValid42 == <<K42, NAna, EGmail, P961>>

RowInvalid == <<K1a, NA1, EOther, P555>>

RowValid7 == <<K7, NAna, EGmail, P961>>

RowNoKey == <<<<>>, NAnLi, EGmail, P961x>>

SampleRows == {RowValid42, RowInvalid, RowValid7, RowNoKey}

SeqsUpTo(S, n) == UNION {[1..k -> S] : k \in 1..n}

Min(a, b) == IF a < b THEN a ELSE b

\* what an operation reports: its name, its error ("nil" on success), and
\* op-specific views of its argument and result
Ret(op, err, arg, out) == [op |-> op, err |-> err, arg |-> arg, out |-> out]

VARIABLES
    clock,        \* the last reading of time.Now()
    ret,          \* the last operation and what it returned
    repoClients,  \* inMemoryClientRepository.clients: id -> record
    repoLastID,   \* inMemoryClientRepository.lastID
    svcClients,   \* clientService.clients
    svcLastID,    \* clientService.lastID
    slice,        \* ValidateClientsConcurrent: the clients slice being validated
    input,        \* the slice as the caller passed it (history)
    jobs,         \* the buffered channel of indices
    closed,       \* close(jobs) has happened
    wg,           \* the sync.WaitGroup counter
    callerPC,     \* where the calling goroutine is
    next,         \* the caller's loop variable (w, then i)
    workerPC,     \* where each worker goroutine is
    index,        \* the index each worker holds
    taken,        \* index -> how often it has been received (history)
    writes,       \* index -> how often its slot has been written (history)
    heap,         \* the *models.Client objects: address -> record
    arrays,       \* the backing arrays of []*models.Client slices: array -> addresses
    sClients,     \* clientService.clients as a slice header: array and length
    sLastID,      \* clientService.lastID, next to sClients
    mu,           \* the sync.RWMutex of the store: its writer and its readers
    proc,         \* each request goroutine: its call, its place in it, its locals
    started       \* how many calls have been started

repoVars == <<repoClients, repoLastID>>

svcVars == <<svcClients, svcLastID>>

poolVars == <<slice, input, jobs, closed, wg, callerPC, next, workerPC, index, taken, writes>>

heapVars == <<heap, arrays, sClients, sLastID, mu, proc, started>>

vars == <<clock, ret, repoVars, svcVars, poolVars, heapVars>>

\* time.Now(): the clock never runs backwards
Now == clock..Min(clock + 1, MaxClock)

(***************************************************************************)
(* excelService: an uploaded file is its path, what excelize makes of it   *)
(* ("ok", or the call that fails: "open", "sheet", "rows") and the rows of *)
(* its first sheet, the header row first.                                  *)
(***************************************************************************)
File(path, opens, rows) == [Path |-> path, Opens |-> opens, Rows |-> rows]

DotXlsx == <<".", "x", "l", "s", "x">>

PathXlsx == <<"a">> \o DotXlsx

PathUpperXlsx == <<"a", ".", "X", "L", "S", "X">>

PathCsv == <<"a", ".", "c", "s", "v">>

expectedHeaders ==
    << <<"c", "l", "a", "v", "e">>, <<"n", "o", "m", "b", "r", "e">>,
       <<"c", "o", "r", "r", "e", "o">>, <<"t", "e", "l", "e", "f", "o", "n", "o">> >>

\* a header row as spreadsheets carry it: capitals, blanks, an accent
HeaderCapitals ==
    << <<" ", "C", "L", "A", "V", "E">>, <<"N", "o", "m", "b", "r", "e", " ">>,
       <<"C", "o", " ", "r", "r", "e", "o">>, <<"T", "e", "l", "e'", "f", "o", "n", "o">>,
       <<"N", "o", "t", "a", "s">> >>

HeaderWrongLabel ==
    << <<"c", "l", "a", "v", "e">>, <<"n", "a", "m", "e">>,
       <<"c", "o", "r", "r", "e", "o">>, <<"t", "e", "l", "e", "f", "o", "n", "o">> >>

HeaderThreeColumns == SubSeq(expectedHeaders, 1, 3)

\* strings.ReplaceAll(s, " ", "") and strings.ReplaceAll(s, "e'", "e")
RECURSIVE NormalizeHeaderChars(_)
NormalizeHeaderChars(s) ==
    IF s = <<>> THEN s
    ELSE IF Head(s) = " " THEN NormalizeHeaderChars(Tail(s))
    ELSE IF Head(s) = "e'" THEN <<"e">> \o NormalizeHeaderChars(Tail(s))
    ELSE <<Head(s)>> \o NormalizeHeaderChars(Tail(s))

\* the error validateHeaders returns, "nil" when the labels are right
validateHeaders(headers) ==
    IF Len(headers) < 4 THEN "FileProcessing"
    ELSE IF \E i \in 1..4 :
                NormalizeHeaderChars(ToLower(TrimSpace(headers[i]))) # expectedHeaders[i]
    THEN "FileProcessing"
    ELSE "nil"

ValidateExcelStructure(file) ==
    IF ~HasSuffix(ToLower(file.Path), DotXlsx) THEN "InvalidFileFormat"
    ELSE IF file.Opens = "open" THEN "FileProcessing"
    ELSE IF file.Opens = "sheet" THEN "InvalidExcelStructure"
    ELSE IF file.Opens = "rows" THEN "FileProcessing"
    ELSE IF Len(file.Rows) < 1 THEN "FileEmpty"
    ELSE validateHeaders(file.Rows[1])

\* the error ReadExcelFile returns before it builds any record
ReadExcelFileError(file) ==
    IF ~HasSuffix(ToLower(file.Path), DotXlsx) THEN "InvalidFileFormat"
    ELSE IF file.Opens \in {"open", "sheet", "rows"} THEN "FileProcessing"
    ELSE IF Len(file.Rows) < 1 THEN "FileEmpty"
    ELSE IF Len(file.Rows) < 2 THEN "FileProcessing"
    ELSE validateHeaders(file.Rows[1])

\* for len(row) < 4 { row = append(row, "") }
PadRow(row) == [k \in 1..(IF Len(row) < 4 THEN 4 ELSE Len(row)) |->
                   IF k <= Len(row) THEN row[k] ELSE <<>>]

\* the records ReadExcelFile builds from the data rows
ReadExcelFile(rows, now) ==
    [i \in 1..Len(rows) |->
        Client(i, Trimmed[PadRow(rows[i])[1]], Trimmed[PadRow(rows[i])[2]],
               Trimmed[PadRow(rows[i])[3]], Trimmed[PadRow(rows[i])[4]], i + 1, now)]

\* The worker-pool path and the sequential path of ValidateClientsConcurrent
\* return the same list (PoolEqualsSequential, checked under SpecPool), so
\* the service operations use the sequential result.
ValidateClientsConcurrent(clients) == ValidateClients(clients)

MaxIDOf(clients) ==
    IF clients = <<>> THEN 0
    ELSE CHOOSE m \in {clients[i].ID : i \in 1..Len(clients)} \cup {0} :
            \A i \in 1..Len(clients) : clients[i].ID <= m

(***************************************************************************)
(* models.ClientFilter and the pagination both stores apply                *)
(***************************************************************************)
\* Go's int is a two's-complement machine integer whose arithmetic wraps.
\* The model gives it IntBits bits in place of 64.
IntBits == 8

MaxInt == 2 ^ (IntBits - 1) - 1

\* the int that holds x after the arithmetic has wrapped
WrapInt(x) == ((x + 2 ^ (IntBits - 1)) % (2 ^ IntBits)) - 2 ^ (IntBits - 1)

\* start := (filter.Page - 1) * filter.Limit
PageStart(page, limit) == WrapInt((page - 1) * limit)

\* end := start + filter.Limit
PageEnd(page, limit) == WrapInt(PageStart(page, limit) + limit)

Filter(clave, nombre, correo, telefono, hasErrors, page, limit) ==
    [Clave |-> clave, Nombre |-> nombre, Correo |-> correo, Telefono |-> telefono,
     HasErrors |-> hasErrors, Page |-> page, Limit |-> limit]

\* HasErrors is a *bool: "nil", "true" or "false"
Filters ==
    { Filter(<<>>, <<>>, <<>>, <<>>, "nil", 0, 0),
      Filter(<<>>, TAN, <<>>, <<>>, "nil", 0, 0),
      Filter(<<>>, Txyz, <<>>, <<>>, "nil", 0, 0),
      Filter(T4, <<>>, <<>>, <<>>, "false", 0, 0),
      Filter(<<>>, <<>>, TGMAIL, <<>>, "nil", 1, 1),
      Filter(<<>>, <<>>, TGMAIL, <<>>, "nil", 2, 1),
      Filter(<<>>, <<>>, <<>>, T961, "nil", 2, 1),
      Filter(<<>>, <<>>, <<>>, <<>>, "true", 0, 0),
      Filter(<<>>, <<>>, <<>>, <<>>, "nil", 3, MaxInt) }

\* GetClients(nil): the handler asks for every record
NilFilter == [Nil |-> TRUE]

\* the filters the service is asked with: a phone text in another case too
ServiceFilters ==
    Filters \cup {NilFilter, Filter(<<>>, <<>>, <<>>, TX, "nil", 0, 0)}

\* the slice expression results[start:end], end clipped to the length, panics:
\* Go requires 0 <= start <= end
SlicePanics(n, page, limit) ==
    /\ page > 0
    /\ limit > 0
    /\ PageStart(page, limit) < n
    /\ \/ PageStart(page, limit) < 0
       \/ Min(PageEnd(page, limit), n) < PageStart(page, limit)

\* results[start:end] after the clipping FindByFilter and GetClients do
Paginate(results, page, limit) ==
    IF page > 0 /\ limit > 0
    THEN LET start == PageStart(page, limit)
             end == PageEnd(page, limit)
         IN  IF start >= Len(results) THEN <<>>
             ELSE SubSeq(results, start + 1, Min(end, Len(results)))
    ELSE results

(***************************************************************************)
(* clientService                                                           *)
(***************************************************************************)
\* a record bound from a request body
RequestClient(row) == Client(0, row[1], row[2], row[3], row[4], 0, 0)

\* index of the first record with the identifier, 0 when there is none
IndexOfID(clients, id) ==
    IF \E i \in 1..Len(clients) : clients[i].ID = id
    THEN CHOOSE i \in 1..Len(clients) :
            clients[i].ID = id /\ \A j \in 1..(i - 1) : clients[j].ID # id
    ELSE 0

\* the sheets an upload can carry
SheetRows == {RowValid42, RowInvalid, RowNoKey}

Sheets == SeqsUpTo(SheetRows, MaxRows)

\* a data row with fewer than four cells
RowShort == <<K7, NAna>>

\* the files an upload can carry: every sheet under the expected header, a
\* sheet under a header in capitals, a sheet with a short row, and the files
\* that are refused
Files ==
    {File(PathXlsx, "ok", <<expectedHeaders>> \o rows) : rows \in Sheets}
    \cup {File(PathUpperXlsx, "ok", <<HeaderCapitals, RowInvalid>>),
          File(PathXlsx, "ok", <<expectedHeaders, RowShort>>),
          File(PathCsv, "ok", <<expectedHeaders, RowValid42>>),
          File(PathXlsx, "open", <<>>),
          File(PathXlsx, "sheet", <<>>),
          File(PathXlsx, "rows", <<>>),
          File(PathXlsx, "ok", <<>>),
          File(PathXlsx, "ok", <<expectedHeaders>>),
          File(PathXlsx, "ok", <<HeaderWrongLabel, RowValid42>>),
          File(PathXlsx, "ok", <<HeaderThreeColumns, RowValid42>>)}

\* the two checks of the file, evaluated once per file
StructureError == [file \in Files |-> ValidateExcelStructure(file)]

ReadError == [file \in Files |-> ReadExcelFileError(file)]

\* the files LoadClientsFromExcel accepts
AcceptedFiles == {file \in Files : StructureError[file] = "nil" /\ ReadError[file] = "nil"}

\* What LoadClientsFromExcel computes from an accepted file before it takes
\* the lock: the records read, validated, and checked for shared keys
\* (evaluated once per file and clock reading instead of once per call)
Ingested ==
    [file \in AcceptedFiles |->
        [now \in 0..MaxClock |->
            LET clients == ReadExcelFile(Tail(file.Rows), now)
                validated == ValidateClientsConcurrent(clients)
            IN  [clients |-> clients, validated |-> validated,
                 checked |-> checkDuplicateKeys(validated)]]]

\* what LoadClientsFromExcel reports: as Ret, and the file it was given
LoadRet(err, arg, out, file) ==
    [op |-> "LoadClientsFromExcel", err |-> err, arg |-> arg, out |-> out, file |-> file]

\* LoadClientsFromExcel that empties the store before it looks at the file
LoadClientsFromExcelClearsFirst(file, now) ==
    LET structure == StructureError[file]
        readError == ReadError[file]
        clients == Ingested[file][now].clients
        validated == Ingested[file][now].validated
        checked == Ingested[file][now].checked
    IN  IF structure # "nil" \/ readError # "nil"
        THEN /\ ret' = LoadRet(IF structure # "nil" THEN structure ELSE readError,
                               <<>>, <<>>, file)
             /\ svcClients' = <<>>
             /\ UNCHANGED <<clock, svcLastID, repoVars, poolVars, heapVars>>
        ELSE /\ svcClients' = checked
             /\ svcLastID' = MaxIDOf(checked)
             /\ clock' = now
             /\ ret' = LoadRet("nil", validated, clients, file)
             /\ UNCHANGED <<repoVars, poolVars, heapVars>>

LoadClientsFromExcel(file, now) ==
    \E structure \in {StructureError[file]} : \E readError \in {ReadError[file]} :
    \E ingested \in {IF file \in AcceptedFiles THEN Ingested[file][now] ELSE <<>>} :
    LET clients == ingested.clients
        validated == ingested.validated
        checked == ingested.checked
    IN  IF structure # "nil"
        THEN /\ ret' = LoadRet(structure, <<>>, <<>>, file)
             /\ UNCHANGED <<clock, svcVars, repoVars, poolVars, heapVars>>
        ELSE IF readError # "nil"
        THEN /\ ret' = LoadRet(readError, <<>>, <<>>, file)
             /\ UNCHANGED <<clock, svcVars, repoVars, poolVars, heapVars>>
        ELSE /\ svcClients' = checked
             /\ svcLastID' = MaxIDOf(checked)
             /\ clock' = now
             /\ ret' = LoadRet("nil", validated, clients, file)
             /\ UNCHANGED <<repoVars, poolVars, heapVars>>

\* UpdateClient without the scan for another record holding the key
UpdateClientNoKeyCheck(id, updatedClient, now) ==
    LET clientIndex == IndexOfID(svcClients, id)
    IN  IF clientIndex = 0
        THEN /\ ret' = Ret("UpdateClient", "NotFound", id, updatedClient.Clave)
             /\ UNCHANGED <<clock, svcVars, repoVars, poolVars, heapVars>>
        ELSE LET originalClient == svcClients[clientIndex]
                 kept == [updatedClient EXCEPT !.ID = originalClient.ID,
                                               !.RowNumber = originalClient.RowNumber,
                                               !.CreatedAt = originalClient.CreatedAt,
                                               !.UpdatedAt = now]
             IN  /\ svcClients' = [svcClients EXCEPT ![clientIndex] = ValidateClient(kept)]
                 /\ clock' = now
                 /\ ret' = Ret("UpdateClient", "nil", id, updatedClient.Clave)
                 /\ UNCHANGED <<svcLastID, repoVars, poolVars, heapVars>>

\* UpdateClient that stores the request's record under the identifier the
\* request body carried
UpdateClientKeepsRequestID(id, updatedClient, now) ==
    LET clientIndex == IndexOfID(svcClients, id)
    IN  IF clientIndex = 0
        THEN /\ ret' = Ret("UpdateClient", "NotFound", id, updatedClient.Clave)
             /\ UNCHANGED <<clock, svcVars, repoVars, poolVars, heapVars>>
        ELSE IF \E i \in 1..Len(svcClients) :
                    i # clientIndex /\ svcClients[i].Clave = updatedClient.Clave
        THEN /\ ret' = Ret("UpdateClient", "DuplicateKey", id, updatedClient.Clave)
             /\ UNCHANGED <<clock, svcVars, repoVars, poolVars, heapVars>>
        ELSE LET originalClient == svcClients[clientIndex]
                 kept == [updatedClient EXCEPT !.RowNumber = originalClient.RowNumber,
                                               !.CreatedAt = originalClient.CreatedAt,
                                               !.UpdatedAt = now]
             IN  /\ svcClients' = [svcClients EXCEPT ![clientIndex] = ValidateClient(kept)]
                 /\ clock' = now
                 /\ ret' = Ret("UpdateClient", "nil", id, updatedClient.Clave)
                 /\ UNCHANGED <<svcLastID, repoVars, poolVars, heapVars>>

UpdateClient(id, updatedClient, now) ==
    LET clientIndex == IndexOfID(svcClients, id)
    IN  IF clientIndex = 0
        THEN /\ ret' = Ret("UpdateClient", "NotFound", id, updatedClient.Clave)
             /\ UNCHANGED <<clock, svcVars, repoVars, poolVars, heapVars>>
        ELSE IF \E i \in 1..Len(svcClients) :
                    i # clientIndex /\ svcClients[i].Clave = updatedClient.Clave
        THEN /\ ret' = Ret("UpdateClient", "DuplicateKey", id, updatedClient.Clave)
             /\ UNCHANGED <<clock, svcVars, repoVars, poolVars, heapVars>>
        ELSE LET originalClient == svcClients[clientIndex]
                 kept == [updatedClient EXCEPT !.ID = originalClient.ID,
                                               !.RowNumber = originalClient.RowNumber,
                                               !.CreatedAt = originalClient.CreatedAt,
                                               !.UpdatedAt = now]
                 validatedClient == ValidateClient(kept)
             IN  /\ svcClients' = [svcClients EXCEPT ![clientIndex] = validatedClient]
                 /\ clock' = now
                 /\ ret' = Ret("UpdateClient", "nil", id, updatedClient.Clave)
                 /\ UNCHANGED <<svcLastID, repoVars, poolVars, heapVars>>

\* DeleteClient that keeps only the records before the one it removes
DeleteClientTruncates(id) ==
    LET clientIndex == IndexOfID(svcClients, id)
    IN  IF clientIndex = 0
        THEN /\ ret' = Ret("DeleteClient", "NotFound", id, <<>>)
             /\ UNCHANGED <<clock, svcVars, repoVars, poolVars, heapVars>>
        ELSE /\ svcClients' = SubSeq(svcClients, 1, clientIndex - 1)
             /\ ret' = Ret("DeleteClient", "nil", id, <<>>)
             /\ UNCHANGED <<clock, svcLastID, repoVars, poolVars, heapVars>>

DeleteClient(id) ==
    LET clientIndex == IndexOfID(svcClients, id)
    IN  IF clientIndex = 0
        THEN /\ ret' = Ret("DeleteClient", "NotFound", id, <<>>)
             /\ UNCHANGED <<clock, svcVars, repoVars, poolVars, heapVars>>
        ELSE /\ svcClients' = SubSeq(svcClients, 1, clientIndex - 1)
                                \o SubSeq(svcClients, clientIndex + 1, Len(svcClients))
             /\ ret' = Ret("DeleteClient", "nil", id, <<>>)
             /\ UNCHANGED <<clock, svcLastID, repoVars, poolVars, heapVars>>

ValidateAllClients ==
    LET validated == ValidateClientsConcurrent(svcClients)
        checked == checkDuplicateKeys(validated)
    IN  /\ svcClients' = checked
        /\ ret' = Ret("ValidateAllClients", "nil", validated, <<>>)
        /\ UNCHANGED <<clock, svcLastID, repoVars, poolVars, heapVars>>

GetClientByID(id) ==
    LET clientIndex == IndexOfID(svcClients, id)
    IN  /\ ret' = IF clientIndex = 0
                  THEN Ret("GetClientByID", "NotFound", id, <<>>)
                  ELSE Ret("GetClientByID", "nil", id, svcClients[clientIndex])
        /\ UNCHANGED <<clock, svcVars, repoVars, poolVars, heapVars>>

\* clientService.matchesFilter
clientServiceMatchesFilter(client, filter) ==
    /\ filter.Clave # <<>> => Contains(Lowered[client.Clave], Lowered[filter.Clave])
    /\ filter.Nombre # <<>> => Contains(Lowered[client.Nombre], Lowered[filter.Nombre])
    /\ filter.Correo # <<>> => Contains(Lowered[client.Correo], Lowered[filter.Correo])
    /\ filter.Telefono # <<>> => Contains(client.Telefono, filter.Telefono)
    /\ filter.HasErrors # "nil" => ((filter.HasErrors = "true") = ~client.IsValid)

\* filteredClients: the records that match, in list order
FilteredClients(filter) ==
    SelectSeq(svcClients, LAMBDA client : clientServiceMatchesFilter(client, filter))

GetClients(filter) ==
    /\ ret' = IF filter = NilFilter
              THEN Ret("GetClients", "nil", filter, svcClients)
              ELSE IF SlicePanics(Len(FilteredClients(filter)), filter.Page, filter.Limit)
              THEN Ret("GetClients", "panic", filter, <<>>)
              ELSE Ret("GetClients", "nil", filter,
                       Paginate(FilteredClients(filter), filter.Page, filter.Limit))
    /\ UNCHANGED <<clock, svcVars, repoVars, poolVars, heapVars>>

ClearAllClients ==
    /\ svcClients' = <<>>
    /\ svcLastID' = 0
    /\ ret' = Ret("ClearAllClients", "nil", <<>>, <<>>)
    /\ UNCHANGED <<clock, repoVars, poolVars, heapVars>>

\* the records a request body can carry
RequestClients == {RequestClient(row) : row \in SampleRows}

\* no batch validation is in progress
PoolIdle ==
    /\ slice = <<>>
    /\ input = <<>>
    /\ jobs = <<>>
    /\ closed = FALSE
    /\ wg = 0
    /\ callerPC = "idle"
    /\ next = 0
    /\ workerPC = [w \in 1..NumWorkers |-> "none"]
    /\ index = [w \in 1..NumWorkers |-> 0]
    /\ taken = <<>>
    /\ writes = <<>>

\* goroutines serving requests at the same time
NumProcs == 2

\* calls the goroutines start before the model stops starting more
MaxCalls == 3

Procs == 1..NumProcs

\* a slice header: its backing array (0 for none) and its length
Slice(arr, len) == [arr |-> arr, len |-> len]

\* a goroutine between two calls: it holds nothing
IdleProc == [op |-> "none", pc |-> "idle", arg |-> <<>>, list |-> Slice(0, 0),
             ptr |-> 0, i |-> 0, snap |-> <<>>, err |-> "nil"]

\* make([]*models.Client, 0), the mutex unlocked, no request in progress
NoRequests ==
    /\ heap = <<>>
    /\ arrays = <<>>
    /\ sClients = Slice(0, 0)
    /\ sLastID = 0
    /\ mu = [w |-> 0, r |-> {}]
    /\ proc = [p \in Procs |-> IdleProc]
    /\ started = 0

StoresEmpty ==
    /\ ret = Ret("init", "nil", <<>>, <<>>)
    /\ repoClients = [i \in {} |-> RequestClient(RowValid42)]
    /\ repoLastID = 0
    /\ svcClients = <<>>
    /\ svcLastID = 0
    /\ NoRequests

\* the service runs are explored within one reading of the clock
InitService == StoresEmpty /\ PoolIdle /\ clock = MaxClock

NextService ==
    \/ \E file \in Files : \E now \in Now :
          LoadClientsFromExcel(file, now)
    \/ \E id \in 1..(MaxRows + 1) : \E updatedClient \in RequestClients : \E now \in Now :
          UpdateClient(id, updatedClient, now)
    \/ \E id \in 1..(MaxRows + 1) : DeleteClient(id)
    \/ ValidateAllClients
    \/ \E id \in 1..(MaxRows + 1) : GetClientByID(id)
    \/ \E filter \in ServiceFilters : GetClients(filter)
    \/ ClearAllClients

SpecService == InitService /\ [][NextService]_vars

(***************************************************************************)
(* inMemoryClientRepository                                                *)
(***************************************************************************)
\* the records callers hand to the repository
RepoInputs == {ValidateClient(c) : c \in RequestClients}

BatchInputs == {ValidateClient(RequestClient(RowValid42)),
                ValidateClient(RequestClient(RowInvalid))}

BatchCreateLists == SeqsUpTo(BatchInputs, MaxBatch)

\* records that name the identifier they are to replace
BatchUpdateLists == SeqsUpTo({[c EXCEPT !.ID = id] : c \in BatchInputs, id \in 1..2}, MaxBatch)

\* a case-insensitive substring test, as the specification words it
ContainsFold(haystack, needle) == Contains(ToLower(haystack), ToLower(needle))

containsIgnoreCase(haystack, needle) ==
    \/ /\ Len(haystack) >= Len(needle)
       /\ ToLower(haystack) # ToLower(SubSeq(haystack, Len(needle) + 1, Len(haystack)))
    \/ Contains(ToLower(haystack), ToLower(needle))

matchesFilter(client, filter) ==
    /\ filter.Clave # <<>> => containsIgnoreCase(client.Clave, filter.Clave)
    /\ filter.Nombre # <<>> => containsIgnoreCase(client.Nombre, filter.Nombre)
    /\ filter.Correo # <<>> => containsIgnoreCase(client.Correo, filter.Correo)
    /\ filter.Telefono # <<>> => containsIgnoreCase(client.Telefono, filter.Telefono)
    /\ filter.HasErrors # "nil" => ((filter.HasErrors = "true") = ~client.IsValid)

\* the orders in which a range over a Go map can visit the keys in S
Orderings(S) ==
    {f \in [1..Cardinality(S) -> S] : \A i, j \in 1..Cardinality(S) : i # j => f[i] # f[j]}

\* Create without the scan for a record that already holds the key
CreateUnchecked(client, now) ==
    LET id == repoLastID + 1
        created == [client EXCEPT !.ID = id, !.CreatedAt = now, !.UpdatedAt = now]
    IN  /\ repoLastID' = id
        /\ repoClients' = [i \in (DOMAIN repoClients) \cup {id} |->
                              IF i = id THEN created ELSE repoClients[i]]
        /\ clock' = now
        /\ ret' = Ret("Create", "nil", client.Clave, id)
        /\ UNCHANGED <<svcVars, poolVars, heapVars>>

\* Create that advances the counter before it scans for the key
CreateCountsRefusal(client, now) ==
    IF \E i \in DOMAIN repoClients : repoClients[i].Clave = client.Clave
    THEN /\ ret' = Ret("Create", "DuplicateKey", client.Clave, 0)
         /\ repoLastID' = repoLastID + 1
         /\ UNCHANGED <<clock, repoClients, svcVars, poolVars, heapVars>>
    ELSE CreateUnchecked(client, now)

Create(client, now) ==
    IF \E i \in DOMAIN repoClients : repoClients[i].Clave = client.Clave
    THEN /\ ret' = Ret("Create", "DuplicateKey", client.Clave, 0)
         /\ UNCHANGED <<clock, repoVars, svcVars, poolVars, heapVars>>
    ELSE LET id == repoLastID + 1
             created == [client EXCEPT !.ID = id, !.CreatedAt = now, !.UpdatedAt = now]
         IN  /\ repoLastID' = id
             /\ repoClients' = [i \in (DOMAIN repoClients) \cup {id} |->
                                   IF i = id THEN created ELSE repoClients[i]]
             /\ clock' = now
             /\ ret' = Ret("Create", "nil", client.Clave, id)
             /\ UNCHANGED <<svcVars, poolVars, heapVars>>

\* the successful branch of Update with one of the three "keep the original"
\* assignments left out
UpdateStoring(id, updatedClient, stored) ==
    IF id \notin DOMAIN repoClients
    THEN /\ ret' = Ret("Update", "NotFound", id, updatedClient.Clave)
         /\ UNCHANGED <<clock, repoVars, svcVars, poolVars, heapVars>>
    ELSE IF \E i \in DOMAIN repoClients :
                i # id /\ repoClients[i].Clave = updatedClient.Clave
    THEN /\ ret' = Ret("Update", "DuplicateKey", id, updatedClient.Clave)
         /\ UNCHANGED <<clock, repoVars, svcVars, poolVars, heapVars>>
    ELSE /\ repoClients' = [repoClients EXCEPT ![id] = stored]
         /\ clock' = stored.UpdatedAt
         /\ ret' = Ret("Update", "nil", id, updatedClient.Clave)
         /\ UNCHANGED <<repoLastID, svcVars, poolVars, heapVars>>

\* Update without updatedClient.CreatedAt = existingClient.CreatedAt
UpdateKeepsRequestCreatedAt(id, updatedClient, now) ==
    UpdateStoring(id, updatedClient,
                  [updatedClient EXCEPT !.ID = id, !.UpdatedAt = now])

\* Update without updatedClient.ID = existingClient.ID
UpdateKeepsRequestID(id, updatedClient, now) ==
    UpdateStoring(id, updatedClient,
                  IF id \in DOMAIN repoClients
                  THEN [updatedClient EXCEPT !.CreatedAt = repoClients[id].CreatedAt,
                                             !.UpdatedAt = now]
                  ELSE updatedClient)

Update(id, updatedClient, now) ==
    IF id \notin DOMAIN repoClients
    THEN /\ ret' = Ret("Update", "NotFound", id, updatedClient.Clave)
         /\ UNCHANGED <<clock, repoVars, svcVars, poolVars, heapVars>>
    ELSE IF \E i \in DOMAIN repoClients :
                i # id /\ repoClients[i].Clave = updatedClient.Clave
    THEN /\ ret' = Ret("Update", "DuplicateKey", id, updatedClient.Clave)
         /\ UNCHANGED <<clock, repoVars, svcVars, poolVars, heapVars>>
    ELSE LET existingClient == repoClients[id]
             stored == [updatedClient EXCEPT !.ID = existingClient.ID,
                                             !.CreatedAt = existingClient.CreatedAt,
                                             !.UpdatedAt = now]
         IN  /\ repoClients' = [repoClients EXCEPT ![id] = stored]
             /\ clock' = now
             /\ ret' = Ret("Update", "nil", id, updatedClient.Clave)
             /\ UNCHANGED <<repoLastID, svcVars, poolVars, heapVars>>

\* Delete that sets the counter back to the number of records left
DeleteRewindsCounter(id) ==
    IF id \notin DOMAIN repoClients
    THEN /\ ret' = Ret("Delete", "NotFound", id, <<>>)
         /\ UNCHANGED <<clock, repoVars, svcVars, poolVars, heapVars>>
    ELSE /\ repoClients' = [i \in (DOMAIN repoClients) \ {id} |-> repoClients[i]]
         /\ repoLastID' = Cardinality((DOMAIN repoClients) \ {id})
         /\ ret' = Ret("Delete", "nil", id, <<>>)
         /\ UNCHANGED <<clock, svcVars, poolVars, heapVars>>

Delete(id) ==
    IF id \notin DOMAIN repoClients
    THEN /\ ret' = Ret("Delete", "NotFound", id, <<>>)
         /\ UNCHANGED <<clock, repoVars, svcVars, poolVars, heapVars>>
    ELSE /\ repoClients' = [i \in (DOMAIN repoClients) \ {id} |-> repoClients[i]]
         /\ ret' = Ret("Delete", "nil", id, <<>>)
         /\ UNCHANGED <<clock, repoLastID, svcVars, poolVars, heapVars>>

Clear ==
    /\ repoClients' = [i \in {} |-> RequestClient(RowValid42)]
    /\ repoLastID' = 0
    /\ ret' = Ret("Clear", "nil", <<>>, <<>>)
    /\ UNCHANGED <<clock, svcVars, poolVars, heapVars>>

BatchCreate(clients, now) ==
    LET n == Len(clients)
        created == [k \in 1..n |->
                       [clients[k] EXCEPT !.ID = repoLastID + k,
                                          !.CreatedAt = now, !.UpdatedAt = now]]
    IN  /\ repoLastID' = repoLastID + n
        /\ repoClients' = [i \in (DOMAIN repoClients) \cup {repoLastID + k : k \in 1..n} |->
                              IF i > repoLastID THEN created[i - repoLastID]
                              ELSE repoClients[i]]
        /\ clock' = now
        /\ ret' = Ret("BatchCreate", "nil", <<>>, n)
        /\ UNCHANGED <<svcVars, poolVars, heapVars>>

\* the map after the first k records of the list have been handled
RECURSIVE BatchUpdated(_, _, _, _)
BatchUpdated(stored, clients, k, now) ==
    IF k = 0 THEN stored
    ELSE LET before == BatchUpdated(stored, clients, k - 1, now)
             client == clients[k]
         IN  IF client.ID \in DOMAIN before
             THEN [before EXCEPT ![client.ID] = [client EXCEPT !.UpdatedAt = now]]
             ELSE before

BatchUpdate(clients, now) ==
    /\ repoClients' = BatchUpdated(repoClients, clients, Len(clients), now)
    /\ clock' = now
    /\ ret' = Ret("BatchUpdate", "nil", <<>>,
                  Cardinality({k \in 1..Len(clients) : clients[k].ID \in DOMAIN repoClients}))
    /\ UNCHANGED <<repoLastID, svcVars, poolVars, heapVars>>

GetByID(id) ==
    /\ ret' = IF id \notin DOMAIN repoClients
              THEN Ret("GetByID", "NotFound", id, <<>>)
              ELSE Ret("GetByID", "nil", id, repoClients[id])
    /\ UNCHANGED <<clock, repoVars, svcVars, poolVars, heapVars>>

FindByFilter(filter) ==
    \E order \in Orderings({i \in DOMAIN repoClients : matchesFilter(repoClients[i], filter)}) :
        /\ ret' = IF SlicePanics(Len(order), filter.Page, filter.Limit)
                  THEN Ret("FindByFilter", "panic", filter, <<>>)
                  ELSE Ret("FindByFilter", "nil", filter,
                           Paginate(order, filter.Page, filter.Limit))
        /\ UNCHANGED <<clock, repoVars, svcVars, poolVars, heapVars>>

\* the repository runs are explored within one reading of the clock
InitRepo == StoresEmpty /\ PoolIdle /\ clock = MaxClock

NextRepo ==
    \/ \E client \in RepoInputs : \E now \in Now :
          repoLastID < MaxID /\ Create(client, now)
    \/ \E id \in 1..MaxID : \E client \in RepoInputs : \E now \in Now :
          Update(id, client, now)
    \/ \E id \in 1..MaxID : Delete(id)
    \/ Clear
    \/ \E clients \in BatchCreateLists : \E now \in Now :
          repoLastID + Len(clients) <= MaxID /\ BatchCreate(clients, now)
    \/ \E clients \in BatchUpdateLists : \E now \in Now : BatchUpdate(clients, now)
    \/ \E id \in 1..(MaxID + 1) : GetByID(id)
    \/ \E filter \in Filters : FindByFilter(filter)

SpecRepo == InitRepo /\ [][NextRepo]_vars

(***************************************************************************)
(* The two stores side by side.  The service and the repository are        *)
(* separate objects that share no field, so a run exercises one of them.   *)
(***************************************************************************)
ServiceOps == {"LoadClientsFromExcel", "UpdateClient", "DeleteClient", "ValidateAllClients",
               "GetClientByID", "GetClients", "ClearAllClients"}

RepoOps == {"Create", "Update", "Delete", "Clear", "BatchCreate", "BatchUpdate",
            "GetByID", "FindByFilter"}

InitStores == StoresEmpty /\ PoolIdle /\ clock = MaxClock

\* the run is on the service: no repository operation has been made
ServiceRun == ret.op \in ServiceOps \cup {"init"}

\* the run is on the repository: no service operation has been made
RepoRun == ret.op \in RepoOps \cup {"init"}

\* the steps of NextService in a service run, those of NextRepo in a
\* repository run
NextStores ==
    \/ \E file \in Files : \E now \in Now :
          ServiceRun /\ LoadClientsFromExcel(file, now)
    \/ \E id \in 1..(MaxRows + 1) : \E updatedClient \in RequestClients : \E now \in Now :
          ServiceRun /\ UpdateClient(id, updatedClient, now)
    \/ \E id \in 1..(MaxRows + 1) : ServiceRun /\ DeleteClient(id)
    \/ ServiceRun /\ ValidateAllClients
    \/ \E id \in 1..(MaxRows + 1) : ServiceRun /\ GetClientByID(id)
    \/ \E filter \in ServiceFilters : ServiceRun /\ GetClients(filter)
    \/ ServiceRun /\ ClearAllClients
    \/ \E client \in RepoInputs : \E now \in Now :
          RepoRun /\ repoLastID < MaxID /\ Create(client, now)
    \/ \E id \in 1..MaxID : \E client \in RepoInputs : \E now \in Now :
          RepoRun /\ Update(id, client, now)
    \/ \E id \in 1..MaxID : RepoRun /\ Delete(id)
    \/ RepoRun /\ Clear
    \/ \E clients \in BatchCreateLists : \E now \in Now :
          RepoRun /\ repoLastID + Len(clients) <= MaxID /\ BatchCreate(clients, now)
    \/ \E clients \in BatchUpdateLists : \E now \in Now :
          RepoRun /\ BatchUpdate(clients, now)
    \/ \E id \in 1..(MaxID + 1) : RepoRun /\ GetByID(id)
    \/ \E filter \in Filters : RepoRun /\ FindByFilter(filter)

SpecStores == InitStores /\ [][NextStores]_vars

(***************************************************************************)
(* validationService.ValidateClientsConcurrent, one goroutine step at a    *)
(* time.  The caller runs start -> spawn -> send -> close -> wait ->       *)
(* returned; a worker alternates recv and work and ends in done.           *)
(***************************************************************************)
RowMessy == <<K42, NAnLi, EGmail, P961>>

PoolRows == {RowMessy, RowInvalid}

\* the lists handed to the call: freshly read sheets, the empty list included
PoolLists == {<<>>} \cup {ReadExcelFile(rows, MaxClock) : rows \in SeqsUpTo(PoolRows, MaxList)}

Workers == 1..NumWorkers

\* numWorkers := 10; if len(clients) < numWorkers { numWorkers = len(clients) }
numWorkers(n) == Min(NumWorkers, n)

\* make(chan int, len(clients))
JobsCap(n) == n

otherVars == <<clock, ret, repoVars, svcVars, heapVars>>

ReturnEmpty ==
    /\ callerPC = "start"
    /\ Len(slice) = 0
    /\ callerPC' = "returned"
    /\ UNCHANGED <<slice, input, jobs, closed, wg, next, workerPC, index, taken, writes, otherVars>>

ValidateSequential ==
    /\ callerPC = "start"
    /\ Len(slice) # 0
    /\ Len(slice) < Threshold
    /\ slice' = ValidateClients(slice)
    /\ writes' = [i \in DOMAIN writes |-> writes[i] + 1]
    /\ callerPC' = "returned"
    /\ UNCHANGED <<input, jobs, closed, wg, next, workerPC, index, taken, otherVars>>

StartPool ==
    /\ callerPC = "start"
    /\ Len(slice) >= Threshold
    /\ jobs' = <<>>
    /\ next' = 0
    /\ callerPC' = "spawn"
    /\ UNCHANGED <<slice, input, closed, wg, workerPC, index, taken, writes, otherVars>>

\* wg.Add(1); go func() {...}()
SpawnWorker ==
    /\ callerPC = "spawn"
    /\ wg' = wg + 1
    /\ workerPC' = [workerPC EXCEPT ![next + 1] = "recv"]
    /\ next' = IF next + 1 < numWorkers(Len(slice)) THEN next + 1 ELSE 0
    /\ callerPC' = IF next + 1 < numWorkers(Len(slice)) THEN "spawn" ELSE "send"
    /\ UNCHANGED <<slice, input, jobs, closed, index, taken, writes, otherVars>>

\* jobs <- i, which blocks while the buffer is full
SendJob ==
    /\ callerPC = "send"
    /\ Len(jobs) < JobsCap(Len(slice))
    /\ jobs' = Append(jobs, next)
    /\ next' = next + 1
    /\ callerPC' = IF next + 1 < Len(slice) THEN "send" ELSE "close"
    /\ UNCHANGED <<slice, input, closed, wg, workerPC, index, taken, writes, otherVars>>

CloseJobs ==
    /\ callerPC = "close"
    /\ closed' = TRUE
    /\ callerPC' = "wait"
    /\ UNCHANGED <<slice, input, jobs, wg, next, workerPC, index, taken, writes, otherVars>>

\* return without wg.Wait()
ReturnWithoutWaiting ==
    /\ callerPC = "wait"
    /\ callerPC' = "returned"
    /\ UNCHANGED <<slice, input, jobs, closed, wg, next, workerPC, index, taken, writes, otherVars>>

\* wg.Wait(); return clients
WaitAndReturn ==
    /\ callerPC = "wait"
    /\ wg = 0
    /\ callerPC' = "returned"
    /\ UNCHANGED <<slice, input, jobs, closed, wg, next, workerPC, index, taken, writes, otherVars>>

\* a receive that leaves the index in the channel
WorkerPeek(w) ==
    /\ workerPC[w] = "recv"
    /\ jobs # <<>>
    /\ index' = [index EXCEPT ![w] = Head(jobs)]
    /\ taken' = [taken EXCEPT ![Head(jobs)] = @ + 1]
    /\ workerPC' = [workerPC EXCEPT ![w] = "work"]
    /\ UNCHANGED <<slice, input, jobs, closed, wg, callerPC, next, writes, otherVars>>

\* for index := range jobs: the next index is received
WorkerRecv(w) ==
    /\ workerPC[w] = "recv"
    /\ jobs # <<>>
    /\ index' = [index EXCEPT ![w] = Head(jobs)]
    /\ jobs' = Tail(jobs)
    /\ taken' = [taken EXCEPT ![Head(jobs)] = @ + 1]
    /\ workerPC' = [workerPC EXCEPT ![w] = "work"]
    /\ UNCHANGED <<slice, input, closed, wg, callerPC, next, writes, otherVars>>

\* the result lands in the slot after the one that was validated
WorkerValidateShifted(w) ==
    /\ workerPC[w] = "work"
    /\ slice' = [slice EXCEPT ![((index[w] + 1) % Len(slice)) + 1] = ValidateClient(slice[index[w] + 1])]
    /\ writes' = [writes EXCEPT ![index[w]] = @ + 1]
    /\ workerPC' = [workerPC EXCEPT ![w] = "recv"]
    /\ UNCHANGED <<input, jobs, closed, wg, callerPC, next, index, taken, otherVars>>

\* clients[index] = s.ValidateClient(clients[index])
WorkerValidate(w) ==
    /\ workerPC[w] = "work"
    /\ slice' = [slice EXCEPT ![index[w] + 1] = ValidateClient(slice[index[w] + 1])]
    /\ writes' = [writes EXCEPT ![index[w]] = @ + 1]
    /\ workerPC' = [workerPC EXCEPT ![w] = "recv"]
    /\ UNCHANGED <<input, jobs, closed, wg, callerPC, next, index, taken, otherVars>>

\* a worker that ends without wg.Done()
WorkerExitNotDone(w) ==
    /\ workerPC[w] = "recv"
    /\ jobs = <<>>
    /\ closed
    /\ workerPC' = [workerPC EXCEPT ![w] = "done"]
    /\ UNCHANGED <<slice, input, jobs, closed, wg, callerPC, next, index, taken, writes, otherVars>>

\* the range ends on the closed, drained channel; the deferred wg.Done() runs
WorkerExit(w) ==
    /\ workerPC[w] = "recv"
    /\ jobs = <<>>
    /\ closed
    /\ workerPC' = [workerPC EXCEPT ![w] = "done"]
    /\ wg' = wg - 1
    /\ UNCHANGED <<slice, input, jobs, closed, callerPC, next, index, taken, writes, otherVars>>

Caller ==
    \/ ReturnEmpty
    \/ ValidateSequential
    \/ StartPool
    \/ SpawnWorker
    \/ SendJob
    \/ CloseJobs
    \/ WaitAndReturn

Worker(w) ==
    \/ WorkerRecv(w)
    \/ WorkerValidate(w)
    \/ WorkerExit(w)

InitPool ==
    /\ StoresEmpty
    /\ clock = MaxClock
    /\ input \in PoolLists
    /\ slice = input
    /\ jobs = <<>>
    /\ closed = FALSE
    /\ wg = 0
    /\ callerPC = "start"
    /\ next = 0
    /\ workerPC = [w \in Workers |-> "none"]
    /\ index = [w \in Workers |-> 0]
    /\ taken = [i \in 0..(Len(input) - 1) |-> 0]
    /\ writes = [i \in 0..(Len(input) - 1) |-> 0]

NextPool == Caller \/ \E w \in Workers : Worker(w)

SpecPool == InitPool /\ [][NextPool]_vars

\* the Go scheduler does not stop while some goroutine can run
FairSpecPool == InitPool /\ [][NextPool]_vars /\ WF_vars(NextPool)

(***************************************************************************)
(* clientService under concurrent requests.  Records are objects on a heap *)
(* and slices are headers over backing arrays, so that two holders of one  *)
(* pointer or of one array see each other's writes.  A goroutine takes one *)
(* step at a time; what it does between Lock and Unlock is private to it   *)
(* only as far as the others respect the lock.                             *)
(***************************************************************************)
callVars == <<clock, ret, repoVars, svcVars, poolVars>>

\* the addresses a slice holds, and the records behind them
View(s) == IF s.len = 0 THEN <<>> ELSE SubSeq(arrays[s.arr], 1, s.len)

Deref(s) == [k \in 1..s.len |-> heap[View(s)[k]]]

\* the heap after the records behind the slice have been replaced, in order
WriteBack(s, records) ==
    [a \in 1..Len(heap) |->
        IF \E k \in 1..s.len : View(s)[k] = a
        THEN records[CHOOSE k \in 1..s.len : View(s)[k] = a]
        ELSE heap[a]]

CanStart(p) == proc[p].pc = "idle" /\ started < MaxCalls

\* s.mu.Lock() and s.mu.RLock() as the goroutine's first step
Lock(p) == mu.w = 0 /\ mu.r = {} /\ mu' = [mu EXCEPT !.w = p]

RLock(p) == mu.w = 0 /\ mu' = [mu EXCEPT !.r = @ \cup {p}]

At(p, op, pc) == proc[p].op = op /\ proc[p].pc = pc

Goto(p, pc) == proc' = [proc EXCEPT ![p].pc = pc]

\* the files the concurrent uploads carry
ConcurrentFiles ==
    {File(PathXlsx, "ok", <<expectedHeaders, RowValid42, RowInvalid>>),
     File(PathXlsx, "ok", <<expectedHeaders, RowInvalid>>),
     File(PathXlsx, "ok", <<expectedHeaders>>)}

\* LoadClientsFromExcel up to the return of ReadExcelFile: the error return,
\* or the records of the file as fresh objects in a fresh array
LoadRead(p, file) ==
    /\ CanStart(p)
    /\ started' = started + 1
    /\ IF StructureError[file] # "nil" \/ ReadError[file] # "nil"
       THEN UNCHANGED <<heap, arrays, proc>>
       ELSE LET clients == Ingested[file][MaxClock].clients
            IN  /\ heap' = heap \o clients
                /\ arrays' = Append(arrays, [k \in 1..Len(clients) |-> Len(heap) + k])
                /\ proc' = [proc EXCEPT ![p] =
                               [IdleProc EXCEPT !.op = "LoadClientsFromExcel",
                                                !.pc = "validate",
                                                !.arg = file,
                                                !.list = Slice(Len(arrays) + 1, Len(clients))]]
    /\ UNCHANGED <<sClients, sLastID, mu, callVars>>

\* clients = s.validationService.ValidateClientsConcurrent(clients)
LoadValidate(p) ==
    /\ At(p, "LoadClientsFromExcel", "validate")
    /\ heap' = WriteBack(proc[p].list, ValidateClientsConcurrent(Deref(proc[p].list)))
    /\ Goto(p, "dups")
    /\ UNCHANGED <<arrays, sClients, sLastID, mu, started, callVars>>

\* s.checkDuplicateKeys(clients)
LoadCheckDuplicateKeys(p) ==
    /\ At(p, "LoadClientsFromExcel", "dups")
    /\ heap' = WriteBack(proc[p].list, checkDuplicateKeys(Deref(proc[p].list)))
    /\ Goto(p, "lock")
    /\ UNCHANGED <<arrays, sClients, sLastID, mu, started, callVars>>

\* LoadClientsFromExcel that goes on to the store without s.mu.Lock()
LoadLockNotTaken(p) ==
    /\ At(p, "LoadClientsFromExcel", "lock")
    /\ Goto(p, "store")
    /\ UNCHANGED <<heap, arrays, sClients, sLastID, mu, started, callVars>>

LoadLock(p) ==
    /\ At(p, "LoadClientsFromExcel", "lock")
    /\ Lock(p)
    /\ Goto(p, "store")
    /\ UNCHANGED <<heap, arrays, sClients, sLastID, started, callVars>>

\* s.clients = clients
LoadStore(p) ==
    /\ At(p, "LoadClientsFromExcel", "store")
    /\ sClients' = proc[p].list
    /\ Goto(p, "lastid")
    /\ UNCHANGED <<heap, arrays, sLastID, mu, started, callVars>>

\* s.updateLastID()
LoadUpdateLastID(p) ==
    /\ At(p, "LoadClientsFromExcel", "lastid")
    /\ sLastID' = MaxIDOf(Deref(sClients))
    /\ Goto(p, "unlock")
    /\ UNCHANGED <<heap, arrays, sClients, mu, started, callVars>>

\* s.mu.Unlock(), and the return of the call that held the lock
Unlock(p) ==
    /\ proc[p].pc = "unlock"
    /\ mu' = [mu EXCEPT !.w = 0]
    /\ proc' = [proc EXCEPT ![p] = IdleProc]
    /\ UNCHANGED <<heap, arrays, sClients, sLastID, started, callVars>>

\* the filters the concurrent GetClients calls carry: none, and one without
\* predicates
ConcurrentFilters == {NilFilter, Filter(<<>>, <<>>, <<>>, <<>>, "nil", 0, 0)}

\* a read call begins: s.mu.RLock()
ReadRLock(p, op, arg) ==
    /\ CanStart(p)
    /\ started' = started + 1
    /\ RLock(p)
    /\ proc' = [proc EXCEPT ![p] = [IdleProc EXCEPT !.op = op, !.pc = "locked", !.arg = arg]]
    /\ UNCHANGED <<heap, arrays, sClients, sLastID, callVars>>

\* GetClients under the read lock: s.clients itself for no filter, the
\* matching records in a slice of their own otherwise
GetClientsScan(p) ==
    /\ At(p, "GetClients", "locked")
    /\ IF proc[p].arg = NilFilter
       THEN /\ proc' = [proc EXCEPT ![p].list = sClients, ![p].pc = "runlock"]
            /\ UNCHANGED arrays
       ELSE LET stored == View(sClients)
                matching == SelectSeq(stored,
                               LAMBDA a : clientServiceMatchesFilter(heap[a], proc[p].arg))
                filter == proc[p].arg
            IN  IF SlicePanics(Len(matching), filter.Page, filter.Limit)
                THEN /\ proc' = [proc EXCEPT ![p].err = "panic", ![p].pc = "runlock"]
                     /\ UNCHANGED arrays
                ELSE LET page == Paginate(matching, filter.Page, filter.Limit)
                     IN  /\ arrays' = Append(arrays, page)
                         /\ proc' = [proc EXCEPT ![p].list = Slice(Len(arrays) + 1, Len(page)),
                                                  ![p].pc = "runlock"]
    /\ UNCHANGED <<heap, sClients, sLastID, mu, started, callVars>>

\* GetClientByID under the read lock: the pointer stored in the list
GetClientByIDScan(p) ==
    /\ At(p, "GetClientByID", "locked")
    /\ LET clientIndex == IndexOfID(Deref(sClients), proc[p].arg)
       IN  proc' = [proc EXCEPT ![p].ptr = IF clientIndex = 0 THEN 0
                                           ELSE View(sClients)[clientIndex],
                                ![p].err = IF clientIndex = 0 THEN "NotFound" ELSE "nil",
                                ![p].pc = "runlock"]
    /\ UNCHANGED <<heap, arrays, sClients, sLastID, mu, started, callVars>>

\* ExportClientsToExcel under the read lock: copy(clients, s.clients)
ExportCopy(p) ==
    /\ At(p, "ExportClientsToExcel", "locked")
    /\ arrays' = Append(arrays, View(sClients))
    /\ proc' = [proc EXCEPT ![p].list = Slice(Len(arrays) + 1, sClients.len),
                             ![p].err = IF sClients.len = 0 THEN "FileProcessing" ELSE "nil",
                             ![p].pc = "runlock"]
    /\ UNCHANGED <<heap, sClients, sLastID, mu, started, callVars>>

\* s.mu.RUnlock(): a call that failed returns; otherwise the caller goes on
\* with what it was handed (the handler serialises it, WriteExcelFile writes
\* it).  snap remembers the addresses the list held at this moment.
RUnlock(p) ==
    /\ proc[p].pc = "runlock"
    /\ mu' = [mu EXCEPT !.r = @ \ {p}]
    /\ proc' = [proc EXCEPT ![p] =
                    IF proc[p].err # "nil" THEN IdleProc
                    ELSE [proc[p] EXCEPT !.pc = "reading", !.snap = View(proc[p].list)]]
    /\ UNCHANGED <<heap, arrays, sClients, sLastID, started, callVars>>

\* the caller has read what it was handed and lets go of it
ReadDone(p) ==
    /\ proc[p].pc = "reading"
    /\ proc' = [proc EXCEPT ![p] = IdleProc]
    /\ UNCHANGED <<heap, arrays, sClients, sLastID, mu, started, callVars>>

\* a write call begins: s.mu.Lock()
WriteLock(p, op, arg, pc) ==
    /\ CanStart(p)
    /\ started' = started + 1
    /\ Lock(p)
    /\ proc' = [proc EXCEPT ![p] = [IdleProc EXCEPT !.op = op, !.pc = pc, !.arg = arg]]
    /\ UNCHANGED <<heap, arrays, sClients, sLastID, callVars>>

\* the record the validation of ValidateAllClients is at
Current(p) == View(sClients)[proc[p].i + 1]

\* ValidateAllClients: s.mu.Lock(), then the loop over s.clients begins
ValidateAllLock(p) ==
    WriteLock(p, "ValidateAllClients", <<>>, IF sClients.len = 0 THEN "dups" ELSE "clear")

\* ValidateClient on the stored object: client.ClearErrors()
ValidateClearErrors(p) ==
    /\ At(p, "ValidateAllClients", "clear")
    /\ heap' = [heap EXCEPT ![Current(p)] = ClearErrors(@)]
    /\ Goto(p, "clave")
    /\ UNCHANGED <<arrays, sClients, sLastID, mu, started, callVars>>

\* ValidateClient on the stored object: one field cleaned and put to its rule
ValidateField(p) ==
    /\ proc[p].op = "ValidateAllClients"
    /\ proc[p].pc \in Fields
    /\ LET c == heap[Current(p)]
           field == proc[p].pc
           checked ==
               IF field = "clave" THEN AddIfInvalid(c, "clave", KeyRule[c.Clave])
               ELSE IF field = "nombre"
               THEN AddIfInvalid([c EXCEPT !.Nombre = Cleaned[c.Nombre]], "nombre",
                                 NameRule[Cleaned[c.Nombre]])
               ELSE IF field = "correo"
               THEN AddIfInvalid([c EXCEPT !.Correo = Cleaned[c.Correo]], "correo",
                                 EmailRule[Cleaned[c.Correo]])
               ELSE AddIfInvalid([c EXCEPT !.Telefono = Cleaned[c.Telefono]], "telefono",
                                 PhoneRule[Cleaned[c.Telefono]])
       IN  /\ heap' = [heap EXCEPT ![Current(p)] = checked]
           /\ Goto(p, IF field = "clave" THEN "nombre"
                       ELSE IF field = "nombre" THEN "correo"
                       ELSE IF field = "correo" THEN "telefono"
                       ELSE "flag")
    /\ UNCHANGED <<arrays, sClients, sLastID, mu, started, callVars>>

\* ValidateClient on the stored object: client.IsValid = len(client.Errors) == 0,
\* and on to the next record
ValidateFlag(p) ==
    /\ At(p, "ValidateAllClients", "flag")
    /\ heap' = [heap EXCEPT ![Current(p)].IsValid = (DOMAIN heap[Current(p)].Errors = {})]
    /\ proc' = [proc EXCEPT ![p].i = @ + 1,
                             ![p].pc = IF proc[p].i + 1 < sClients.len THEN "clear" ELSE "dups"]
    /\ UNCHANGED <<arrays, sClients, sLastID, mu, started, callVars>>

\* s.checkDuplicateKeys(s.clients)
ValidateCheckDuplicateKeys(p) ==
    /\ At(p, "ValidateAllClients", "dups")
    /\ heap' = WriteBack(sClients, checkDuplicateKeys(Deref(sClients)))
    /\ Goto(p, "unlock")
    /\ UNCHANGED <<arrays, sClients, sLastID, mu, started, callVars>>

\* DeleteClient under the lock:
\* s.clients = append(s.clients[:clientIndex], s.clients[clientIndex+1:]...)
\* moves the later elements down inside the backing array
DeleteApply(p) ==
    /\ At(p, "DeleteClient", "apply")
    /\ LET clientIndex == IndexOfID(Deref(sClients), proc[p].arg)
           array == arrays[sClients.arr]
       IN  IF clientIndex = 0
           THEN UNCHANGED <<arrays, sClients>>
           ELSE /\ arrays' = [arrays EXCEPT ![sClients.arr] =
                                 [k \in 1..Len(array) |->
                                     IF k >= clientIndex /\ k < sClients.len
                                     THEN array[k + 1] ELSE array[k]]]
                /\ sClients' = Slice(sClients.arr, sClients.len - 1)
    /\ Goto(p, "unlock")
    /\ UNCHANGED <<heap, sLastID, mu, started, callVars>>

\* UpdateClient under the lock: the request's record, validated, takes the
\* slot of the record with the identifier: s.clients[clientIndex] = validatedClient
UpdateApply(p) ==
    /\ At(p, "UpdateClient", "apply")
    /\ LET id == proc[p].arg[1]
           updatedClient == proc[p].arg[2]
           stored == Deref(sClients)
           clientIndex == IndexOfID(stored, id)
       IN  IF \/ clientIndex = 0
              \/ \E i \in 1..Len(stored) :
                    i # clientIndex /\ stored[i].Clave = updatedClient.Clave
           THEN UNCHANGED <<heap, arrays>>
           ELSE LET originalClient == stored[clientIndex]
                    kept == [updatedClient EXCEPT !.ID = originalClient.ID,
                                                  !.RowNumber = originalClient.RowNumber,
                                                  !.CreatedAt = originalClient.CreatedAt,
                                                  !.UpdatedAt = MaxClock]
                IN  /\ heap' = Append(heap, ValidateClient(kept))
                    /\ arrays' = [arrays EXCEPT ![sClients.arr][clientIndex] = Len(heap) + 1]
    /\ Goto(p, "unlock")
    /\ UNCHANGED <<sClients, sLastID, mu, started, callVars>>

\* the steps of an upload
LoadSteps(p) ==
    \/ \E file \in ConcurrentFiles : LoadRead(p, file)
    \/ LoadValidate(p)
    \/ LoadCheckDuplicateKeys(p)
    \/ LoadLock(p)
    \/ LoadStore(p)
    \/ LoadUpdateLastID(p)
    \/ Unlock(p)

\* the steps of the calls that read
ReadSteps(p) ==
    \/ \E filter \in ConcurrentFilters : ReadRLock(p, "GetClients", filter)
    \/ \E id \in 1..MaxRows : ReadRLock(p, "GetClientByID", id)
    \/ ReadRLock(p, "ExportClientsToExcel", <<>>)
    \/ GetClientsScan(p)
    \/ GetClientByIDScan(p)
    \/ ExportCopy(p)
    \/ RUnlock(p)
    \/ ReadDone(p)

\* the steps of the calls that change the stored records
WriteSteps(p) ==
    \/ ValidateAllLock(p)
    \/ ValidateClearErrors(p)
    \/ ValidateField(p)
    \/ ValidateFlag(p)
    \/ ValidateCheckDuplicateKeys(p)
    \/ \E id \in 1..MaxRows : WriteLock(p, "DeleteClient", id, "apply")
    \/ DeleteApply(p)
    \/ \E id \in 1..MaxRows :
          WriteLock(p, "UpdateClient", <<id, RequestClient(RowValid7)>>, "apply")
    \/ UpdateApply(p)

InitShared == StoresEmpty /\ PoolIdle /\ clock = MaxClock

\* uploads and reads side by side
NextUploads == \E p \in Procs : LoadSteps(p) \/ ReadSteps(p)

SpecUploads == InitShared /\ [][NextUploads]_vars

\* every call of the service side by side
NextShared == \E p \in Procs : LoadSteps(p) \/ ReadSteps(p) \/ WriteSteps(p)

SpecShared == InitShared /\ [][NextShared]_vars

(***************************************************************************)
(* inMemoryClientRepository under concurrent Create calls.  The repository *)
(* has a mutex of its own, r.mutex; no service call runs here, and mu      *)
(* stands for r.mutex.                                                     *)
(***************************************************************************)
createFrame == <<clock, ret, svcVars, poolVars, heap, arrays, sClients, sLastID>>

\* the records the concurrent Create calls carry: two with one key, one
\* with another
CreateInputs == {RequestClient(row) : row \in {RowValid42, RowMessy, RowValid7}}

\* a goroutine calls Create
CreateCall(p, client) ==
    /\ CanStart(p)
    /\ started' = started + 1
    /\ proc' = [proc EXCEPT ![p] = [IdleProc EXCEPT !.op = "Create", !.pc = "lock",
                                                     !.arg = client]]
    /\ UNCHANGED <<mu, repoVars, createFrame>>

\* Create that goes on to the scan without r.mutex.Lock()
CreateLockNotTaken(p) ==
    /\ At(p, "Create", "lock")
    /\ Goto(p, "scan")
    /\ UNCHANGED <<mu, started, repoVars, createFrame>>

\* r.mutex.Lock()
CreateLock(p) ==
    /\ At(p, "Create", "lock")
    /\ Lock(p)
    /\ Goto(p, "scan")
    /\ UNCHANGED <<started, repoVars, createFrame>>

\* the scan of r.clients for a record that holds the key
CreateScan(p) ==
    /\ At(p, "Create", "scan")
    /\ proc' = [proc EXCEPT ![p] =
                    IF \E i \in DOMAIN repoClients : repoClients[i].Clave = proc[p].arg.Clave
                    THEN [proc[p] EXCEPT !.err = "DuplicateKey", !.pc = "unlock"]
                    ELSE [proc[p] EXCEPT !.pc = "count"]]
    /\ UNCHANGED <<mu, started, repoVars, createFrame>>

\* r.lastID++
CreateCount(p) ==
    /\ At(p, "Create", "count")
    /\ repoLastID' = repoLastID + 1
    /\ Goto(p, "insert")
    /\ UNCHANGED <<mu, started, repoClients, createFrame>>

\* client.ID = r.lastID, the two timestamps, r.clients[client.ID] = client
CreateInsert(p) ==
    /\ At(p, "Create", "insert")
    /\ LET id == repoLastID
           created == [proc[p].arg EXCEPT !.ID = id, !.CreatedAt = clock, !.UpdatedAt = clock]
       IN  /\ repoClients' = [i \in (DOMAIN repoClients) \cup {id} |->
                                 IF i = id THEN created ELSE repoClients[i]]
           /\ proc' = [proc EXCEPT ![p].ptr = id, ![p].pc = "unlock"]
    /\ UNCHANGED <<mu, started, repoLastID, createFrame>>

\* the deferred r.mutex.Unlock() and the return: the caller has the result
CreateUnlock(p) ==
    /\ At(p, "Create", "unlock")
    /\ mu' = [mu EXCEPT !.w = 0]
    /\ Goto(p, "returned")
    /\ UNCHANGED <<started, repoVars, createFrame>>

\* the caller is done with the result
CreateDone(p) ==
    /\ At(p, "Create", "returned")
    /\ proc' = [proc EXCEPT ![p] = IdleProc]
    /\ UNCHANGED <<mu, started, repoVars, createFrame>>

NextCreates ==
    \E p \in Procs :
        \/ \E client \in CreateInputs : CreateCall(p, client)
        \/ CreateLock(p)
        \/ CreateScan(p)
        \/ CreateCount(p)
        \/ CreateInsert(p)
        \/ CreateUnlock(p)
        \/ CreateDone(p)

SpecCreates == InitShared /\ [][NextCreates]_vars

(***************************************************************************)
(* Properties                                                              *)
(***************************************************************************)
Consistent(c) == c.IsValid = (DOMAIN c.Errors = {})

DupText == DupMsg(<<>>).text

HasDupError(c) == HasError(c, "clave") /\ c.Errors["clave"].text = DupText

SharesKey(list, i) ==
    list[i].Clave # <<>> /\ \E j \in 1..Len(list) : j # i /\ list[j].Clave = list[i].Clave

KeyIsUnique(list, i) == \A j \in 1..Len(list) : j # i => list[j].Clave # list[i].Clave

AfterBatchValidation ==
    ret.op \in {"LoadClientsFromExcel", "ValidateAllClients"} /\ ret.err = "nil"

\* C1: every record of the service store is valid exactly when its error map
\* is empty, and ValidateClient, AddError and ClearErrors applied to a stored
\* record each return a record in that state.
ValidityMatchesErrors ==
    \A i \in 1..Len(svcClients) :
        LET c == svcClients[i]
        IN  /\ Consistent(c)
            /\ Consistent(ValidateClient(c))
            /\ Consistent(ClearErrors(c))
            /\ \A f \in Fields : Consistent(AddError(c, f, Msg("message")))

\* a stored record whose own fields are all valid and that the reconciliation
\* pass has flagged
WitnessFlaggedRecord ==
    \E i \in 1..Len(svcClients) :
        /\ DOMAIN svcClients[i].Errors = {"clave"}
        /\ HasDupError(svcClients[i])
        /\ ~svcClients[i].IsValid

UniqueKeysIn(stored) ==
    \A i, j \in DOMAIN stored : i # j => stored[i].Clave # stored[j].Clave

CreateContract ==
    [][ret'.op = "Create" =>
          LET key == ret'.arg
              id == repoLastID + 1
          IN  IF \E i \in DOMAIN repoClients : repoClients[i].Clave = key
              THEN /\ ret'.err = "DuplicateKey"
                   /\ repoClients' = repoClients
                   /\ repoLastID' = repoLastID
              ELSE /\ ret'.err = "nil"
                   /\ repoLastID' = id
                   /\ DOMAIN repoClients' = (DOMAIN repoClients) \cup {id}
                   /\ repoClients'[id].Clave = key
                   /\ repoClients'[id].ID = id
                   /\ \A i \in DOMAIN repoClients : repoClients'[i] = repoClients[i]
                   /\ Cardinality(DOMAIN repoClients') = Cardinality(DOMAIN repoClients) + 1]_vars

\* Create has been refused on a repository that holds records
WitnessCreateRefused ==
    /\ ret.op = "Create"
    /\ ret.err = "DuplicateKey"
    /\ \E i \in DOMAIN repoClients : repoClients[i].Clave = ret.arg

\* C4 as stated: every record FindByFilter returns contains each non-empty
\* text of the filter in the matching field, ignoring case.
FilterKeepsOnlyContaining ==
    ret.op = "FindByFilter" =>
        \A k \in 1..Len(ret.out) :
            LET c == repoClients[ret.out[k]]
                f == ret.arg
            IN  /\ f.Clave # <<>> => ContainsFold(c.Clave, f.Clave)
                /\ f.Nombre # <<>> => ContainsFold(c.Nombre, f.Nombre)
                /\ f.Correo # <<>> => ContainsFold(c.Correo, f.Correo)
                /\ f.Telefono # <<>> => ContainsFold(c.Telefono, f.Telefono)

\* C5: after LoadClientsFromExcel or ValidateAllClients, every record whose
\* non-empty key another record of the batch holds is invalid and carries
\* the duplicate-key error, and no record whose key is unique carries one.
DuplicateKeysFlagged ==
    AfterBatchValidation =>
        \A i \in 1..Len(svcClients) :
            /\ SharesKey(svcClients, i) =>
                  /\ ~svcClients[i].IsValid
                  /\ HasError(svcClients[i], "clave")
                  /\ svcClients[i].Errors["clave"] = DupMsg(svcClients[i].Clave)
            /\ KeyIsUnique(svcClients, i) => ~HasDupError(svcClients[i])

\* a revalidated batch in which two records with valid fields share a key
WitnessSharedValidKey ==
    /\ ret.op = "ValidateAllClients"
    /\ \E i, j \in 1..Len(svcClients) :
          /\ i # j
          /\ svcClients[i].Clave = svcClients[j].Clave
          /\ DOMAIN ret.arg[i].Errors = {}
          /\ DOMAIN ret.arg[j].Errors = {}
          /\ HasDupError(svcClients[i])
          /\ HasDupError(svcClients[j])

\* C6 as stated: every error a record had after its individual validation
\* (ret.arg is the batch as validated, before the pass) is still in its
\* error map after the reconciliation pass.
ReconciliationKeepsErrors ==
    AfterBatchValidation =>
        \A i \in 1..Len(svcClients) :
            \A f \in DOMAIN ret.arg[i].Errors :
                /\ f \in DOMAIN svcClients[i].Errors
                /\ svcClients[i].Errors[f] = ret.arg[i].Errors[f]

\* slot by slot, after is before with the name, email and phone cleaned: the
\* same length and order, and the identifier, business key, source row and
\* timestamps of every slot untouched
SameSlots(before, after) ==
    /\ Len(after) = Len(before)
    /\ \A i \in 1..Len(before) :
          /\ after[i].ID = before[i].ID
          /\ after[i].Clave = before[i].Clave
          /\ after[i].RowNumber = before[i].RowNumber
          /\ after[i].CreatedAt = before[i].CreatedAt
          /\ after[i].UpdatedAt = before[i].UpdatedAt
          /\ after[i].Nombre = CleanString(before[i].Nombre)
          /\ after[i].Correo = CleanString(before[i].Correo)
          /\ after[i].Telefono = CleanString(before[i].Telefono)

\* C11: batch validation followed by the reconciliation pass keeps every
\* record in its slot: LoadClientsFromExcel stores the list it read (ret.out)
\* slot by slot, and ValidateAllClients stores the list it found slot by
\* slot, with only cleaned texts, error map and validity flag changed.
BatchValidationKeepsSlots ==
    [][/\ (ret'.op = "LoadClientsFromExcel" /\ ret'.err = "nil") =>
             SameSlots(ret'.out, svcClients')
       /\ ret'.op = "ValidateAllClients" => SameSlots(svcClients, svcClients')]_vars

\* an uploaded sheet of two different rows, one of them a name to clean
WitnessTwoSlotsLoaded ==
    /\ ret.op = "LoadClientsFromExcel"
    /\ ret.err = "nil"
    /\ Len(svcClients) = 2
    /\ svcClients[1].Clave # svcClients[2].Clave
    /\ ret.out[2].Nombre = NAnLi
    /\ svcClients[2].Nombre # NAnLi

\* C12: a second ValidateAllClients right after the first changes nothing:
\* validating and reconciling the list a run has stored gives that list.
RevalidationIsIdempotent ==
    ret.op = "ValidateAllClients" =>
        checkDuplicateKeys(ValidateClientsConcurrent(svcClients)) = svcClients

\* a revalidated store holding a record whose name had blanks to collapse
WitnessRevalidatedCleanedName ==
    /\ ret.op = "ValidateAllClients"
    /\ Len(svcClients) = 2
    /\ \E i \in 1..Len(svcClients) : svcClients[i].Nombre = CleanString(NAnLi)

\* the service holds a record with the identifier
SvcHasID(id) == \E i \in 1..Len(svcClients) : svcClients[i].ID = id

\* C13: Update and UpdateClient (ret.arg the identifier, ret.out the new
\* business key) fail with NotFound when no stored record has the
\* identifier, with DuplicateKey when a different stored record holds the
\* key, and succeed otherwise; a failed call leaves the store unchanged.
UpdateFailures ==
    [][/\ ret'.op = "Update" =>
             IF ret'.arg \notin DOMAIN repoClients
             THEN ret'.err = "NotFound" /\ repoVars' = repoVars
             ELSE IF \E i \in DOMAIN repoClients :
                         repoClients[i].ID # ret'.arg /\ repoClients[i].Clave = ret'.out
             THEN ret'.err = "DuplicateKey" /\ repoVars' = repoVars
             ELSE ret'.err = "nil"
       /\ ret'.op = "UpdateClient" =>
             IF ~SvcHasID(ret'.arg)
             THEN ret'.err = "NotFound" /\ svcVars' = svcVars
             ELSE IF \E i \in 1..Len(svcClients) :
                         svcClients[i].ID # ret'.arg /\ svcClients[i].Clave = ret'.out
             THEN ret'.err = "DuplicateKey" /\ svcVars' = svcVars
             ELSE ret'.err = "nil"]_vars

\* UpdateClient has refused a key that the other record of the store holds
WitnessUpdateClientRefused ==
    /\ ret.op = "UpdateClient"
    /\ ret.err = "DuplicateKey"
    /\ \E i \in 1..Len(svcClients) :
          svcClients[i].ID # ret.arg /\ svcClients[i].Clave = ret.out
    /\ SvcHasID(ret.arg)

\* C14: a successful Update or UpdateClient keeps the number of records and
\* every record but the one with the identifier; that record takes the new
\* business key and keeps its identifier and creation time and, in the
\* service, its source row and its place in the list.
SuccessfulUpdateFrame ==
    [][/\ (ret'.op = "Update" /\ ret'.err = "nil") =>
             /\ DOMAIN repoClients' = DOMAIN repoClients
             /\ repoLastID' = repoLastID
             /\ \A i \in DOMAIN repoClients :
                   IF i = ret'.arg
                   THEN /\ repoClients'[i].ID = repoClients[i].ID
                        /\ repoClients'[i].CreatedAt = repoClients[i].CreatedAt
                        /\ repoClients'[i].Clave = ret'.out
                   ELSE repoClients'[i] = repoClients[i]
       /\ (ret'.op = "UpdateClient" /\ ret'.err = "nil") =>
             /\ Len(svcClients') = Len(svcClients)
             /\ svcLastID' = svcLastID
             /\ \A i \in 1..Len(svcClients) :
                   IF svcClients[i].ID = ret'.arg
                   THEN /\ svcClients'[i].ID = svcClients[i].ID
                        /\ svcClients'[i].CreatedAt = svcClients[i].CreatedAt
                        /\ svcClients'[i].RowNumber = svcClients[i].RowNumber
                        /\ svcClients'[i].Clave = ret'.out
                   ELSE svcClients'[i] = svcClients[i]]_vars

\* Update has given one of two stored records a key no stored record had
WitnessRecordUpdated ==
    /\ ret.op = "Update"
    /\ ret.err = "nil"
    /\ Cardinality(DOMAIN repoClients) >= 2
    /\ repoClients[ret.arg].Clave = ret.out
    /\ repoClients[ret.arg].CreatedAt # 0

\* the list without the records that have the identifier
WithoutID(clients, id) == SelectSeq(clients, LAMBDA c : c.ID # id)

Assigned ==
    IF ret'.op = "Create" /\ ret'.err = "nil" THEN {ret'.out}
    ELSE IF ret'.op = "BatchCreate" THEN (DOMAIN repoClients') \ (DOMAIN repoClients)
    ELSE {}

\* every identifier a step hands out is above the counter, and so above
\* every identifier handed out since the counter last went back
AssignsAboveCounter ==
    /\ \A id \in Assigned : id > repoLastID /\ id <= repoLastID'
    /\ \A i \in DOMAIN repoClients' : repoClients'[i].ID <= repoLastID'

\* C17 as stated: over the whole life of the repository every identifier
\* handed out is above all handed out before.  lastID is the greatest
\* identifier handed out, so this needs every step to hand out above the
\* counter and no step, Clear included, to set the counter back.
IdentifiersOnlyGrow ==
    [][AssignsAboveCounter /\ repoLastID' >= repoLastID]_vars

\* C17 amended: every identifier handed out is above the counter, and only
\* Clear sets the counter back (to 0): identifiers grow from one Clear to
\* the next, and Delete never frees an identifier for reuse.
IdentifiersGrowBetweenClears ==
    [][/\ AssignsAboveCounter
       /\ ret'.op # "Clear" => repoLastID' >= repoLastID
       /\ ret'.op = "Clear" => repoLastID' = 0]_vars

\* Create has handed out 2 although identifier 1 had been deleted
WitnessCreatedAfterDelete ==
    /\ ret.op = "Create"
    /\ ret.err = "nil"
    /\ ret.out = 2
    /\ DOMAIN repoClients = {2}

MatchesFolded(client, filter) ==
    /\ filter.Clave # <<>> => ContainsFold(client.Clave, filter.Clave)
    /\ filter.Nombre # <<>> => ContainsFold(client.Nombre, filter.Nombre)
    /\ filter.Correo # <<>> => ContainsFold(client.Correo, filter.Correo)
    /\ filter.Telefono # <<>> => ContainsFold(client.Telefono, filter.Telefono)
    /\ filter.HasErrors # "nil" => ((filter.HasErrors = "true") = ~client.IsValid)

\* C19 as stated: GetClients returns the page of the records that contain
\* each text of the filter ignoring case, the phone text like the others,
\* and match has-errors when it is set; a filter with no predicate (and no
\* filter at all) keeps every record.
GetClientsFoldsEveryText ==
    (ret.op = "GetClients" /\ ret.err = "nil") =>
        IF ret.arg = NilFilter THEN ret.out = svcClients
        ELSE ret.out = Paginate(SelectSeq(svcClients, LAMBDA c : MatchesFolded(c, ret.arg)),
                                ret.arg.Page, ret.arg.Limit)

\* the identifiers on a page: FindByFilter's ret.out lists identifiers,
\* GetClients' lists records
PageIDs(r) ==
    IF r.op = "FindByFilter" THEN {r.out[k] : k \in 1..Len(r.out)}
    ELSE {r.out[k].ID : k \in 1..Len(r.out)}

\* two queries, one right after the other, for different pages of the same
\* filter and limit
DifferentPages(r1, r2) ==
    /\ r1.op \in {"FindByFilter", "GetClients"}
    /\ r2.op = r1.op
    /\ r1.arg # NilFilter
    /\ r2.arg # NilFilter
    /\ r1.arg.Page > 0
    /\ r2.arg.Page > 0
    /\ r1.arg.Limit > 0
    /\ r1.arg.Page # r2.arg.Page
    /\ [r1.arg EXCEPT !.Page = r2.arg.Page] = r2.arg

\* C20 as stated, for two queries on an unchanged store: different pages of
\* the same filter and limit have no record in common.
PagesAreDisjoint ==
    [][DifferentPages(ret, ret') => PageIDs(ret) \cap PageIDs(ret') = {}]_vars

\* what each rule of utils/validators.go says of a field of the record
RuleOf(c) ==
    [clave |-> ValidateClientKey(c.Clave), nombre |-> ValidateClientName(c.Nombre),
     correo |-> ValidateEmail(c.Correo), telefono |-> ValidatePhone(c.Telefono)]

\* after is before as ValidateClient must leave it: an error for a field
\* exactly when the field's rule rejects the value, with the rule's message;
\* name, email and phone cleaned; the key and the rest of the record as given
ValidatedByEveryRule(before, after) ==
    /\ DOMAIN after.Errors = {f \in Fields : ~RuleOf(before)[f].valid}
    /\ \A f \in DOMAIN after.Errors : after.Errors[f] = Msg(RuleOf(before)[f].text)
    /\ after.IsValid = (\A f \in Fields : RuleOf(before)[f].valid)
    /\ after.Nombre = CleanString(before.Nombre)
    /\ after.Correo = CleanString(before.Correo)
    /\ after.Telefono = CleanString(before.Telefono)
    /\ after.Clave = before.Clave
    /\ after.ID = before.ID

\* C22: ValidateClient runs all four rules whatever the earlier ones said.
\* Of an uploaded sheet (ret.out the records as read, ret.arg as validated)
\* and of every stored record validated again, the result has an error for
\* a field exactly when that field's rule rejects the value, and has name,
\* email and phone cleaned whether or not the record passes.
EveryRuleIsEvaluated ==
    /\ ret.op = "LoadClientsFromExcel" =>
           \A i \in 1..Len(ret.out) : ValidatedByEveryRule(ret.out[i], ret.arg[i])
    /\ \A i \in 1..Len(svcClients) :
           ValidatedByEveryRule(svcClients[i], ValidateClient(svcClients[i]))

\* an upload with a record that all four rules reject and a record that
\* only the key rule rejects and whose name had blanks to collapse
WitnessFourErrorsAndCleanedName ==
    /\ ret.op = "LoadClientsFromExcel"
    /\ \E i, j \in 1..Len(ret.arg) :
          /\ DOMAIN ret.arg[i].Errors = Fields
          /\ DOMAIN ret.arg[j].Errors = {"clave"}
          /\ ret.out[j].Nombre = NAnLi
          /\ ret.arg[j].Nombre = CleanString(NAnLi)
          /\ ret.arg[j].Nombre # NAnLi

\* net/http status codes the handlers answer with
StatusOK == 200

StatusNotFound == 404

StatusInternalServerError == 500

\* ClientHandler.GetClientByID, UpdateClient and DeleteClient after the
\* identifier has been parsed and the body bound: the status each answers
\* with, given what the service call returned
HandlerGetClientByID(r) == IF r.err # "nil" THEN StatusNotFound ELSE StatusOK

HandlerUpdateClient(r) == IF r.err # "nil" THEN StatusInternalServerError ELSE StatusOK

HandlerDeleteClient(r) == IF r.err # "nil" THEN StatusNotFound ELSE StatusOK

\* the status of the handler that made the service call r
HandlerStatus(r) ==
    IF r.op = "GetClientByID" THEN HandlerGetClientByID(r)
    ELSE IF r.op = "UpdateClient" THEN HandlerUpdateClient(r)
    ELSE HandlerDeleteClient(r)

\* C24 as stated: when the service reports NotFound for the identifier, the
\* handler of GetClientByID, UpdateClient and DeleteClient answers with a
\* status of the 404 class (4xx).
NotFoundAnswersNotFound ==
    (ret.op \in {"GetClientByID", "UpdateClient", "DeleteClient"} /\ ret.err = "NotFound")
        => HandlerStatus(ret) \in 400..499

\* C25 as stated: whatever positive page and limit a paginated query is
\* given, those whose (page-1)*limit wraps included, it returns a page,
\* possibly empty, and does not fail.
PaginationNeverFails ==
    ret.op \in {"GetClients", "FindByFilter"} => ret.err = "nil"

\* C26 as stated: in the service store a record carries the duplicate-key
\* error only if another stored record holds the same business key.
DuplicateFlagNeedsAnotherHolder ==
    \A i \in 1..Len(svcClients) : HasDupError(svcClients[i]) => SharesKey(svcClients, i)

\* the labels of the four columns, whatever their case and blanks
HasTheFourLabels(headers) ==
    /\ Len(headers) >= 4
    /\ \A i \in 1..4 :
          NormalizeHeaderChars(ToLower(TrimSpace(headers[i]))) = expectedHeaders[i]

\* a readable .xlsx file whose first sheet has the header row and data rows
StructurallyValid(file) ==
    /\ HasSuffix(ToLower(file.Path), DotXlsx)
    /\ file.Opens = "ok"
    /\ Len(file.Rows) >= 2
    /\ HasTheFourLabels(file.Rows[1])

\* C23: LoadClientsFromExcel is all-or-nothing.  Given a file that is not
\* structurally valid it fails and leaves the stored records and the
\* counter as they were; given a structurally valid file it succeeds and
\* stores one record per data row, in row order, however many of them fail
\* validation.
IngestionIsAllOrNothing ==
    [][ret'.op = "LoadClientsFromExcel" =>
          IF StructurallyValid(ret'.file)
          THEN /\ ret'.err = "nil"
               /\ Len(svcClients') = Len(ret'.file.Rows) - 1
               /\ \A i \in 1..Len(svcClients') :
                     /\ svcClients'[i].RowNumber = i + 1
                     /\ svcClients'[i].Clave = TrimSpace(PadRow(ret'.file.Rows[i + 1])[1])
          ELSE /\ ret'.err # "nil"
               /\ svcVars' = svcVars]_vars

\* a header-only file has been refused and the two stored records, one of
\* them invalid, are still there
WitnessRefusedFileKeepsStore ==
    /\ ret.op = "LoadClientsFromExcel"
    /\ ret.err = "FileProcessing"
    /\ ret.file.Rows = <<expectedHeaders>>
    /\ Len(svcClients) = 2
    /\ \E i \in 1..Len(svcClients) : ~svcClients[i].IsValid

\* the members of a set of identifiers, lowest first: the order in which
\* the repository was given its records
RECURSIVE Ascending(_)
Ascending(S) ==
    IF S = {} THEN <<>>
    ELSE LET m == CHOOSE x \in S : \A y \in S : x <= y
         IN  <<m>> \o Ascending(S \ {m})

\* the page a query must return: the requested slice of the matching
\* records taken in their original order (r.out lists identifiers for
\* FindByFilter and records for GetClients)
PageInOriginalOrder(r) ==
    IF r.op = "FindByFilter"
    THEN r.out = Paginate(Ascending({i \in DOMAIN repoClients :
                                        matchesFilter(repoClients[i], r.arg)}),
                          r.arg.Page, r.arg.Limit)
    ELSE /\ \A k \in 1..Len(r.out) : clientServiceMatchesFilter(r.out[k], r.arg)
         /\ \E first \in 0..Len(svcClients) :
               r.out = SelectSeq(SubSeq(svcClients, first + 1, Len(svcClients)),
                                 LAMBDA c : clientServiceMatchesFilter(c, r.arg))
               \/ \E last \in first..Len(svcClients) :
                     r.out = SelectSeq(SubSeq(svcClients, first + 1, last),
                                       LAMBDA c : clientServiceMatchesFilter(c, r.arg))

\* C21 as stated: a filtered query returns its page of the matching records
\* in their original relative order, and the same query asked again on the
\* unchanged store returns the same records in the same order.
QueryKeepsOriginalOrder ==
    [][(ret'.op \in {"FindByFilter", "GetClients"} /\ ret'.err = "nil"
           /\ ret'.arg # NilFilter) =>
          /\ PageInOriginalOrder(ret')
          /\ (ret.op = ret'.op /\ ret.arg = ret'.arg) => ret'.out = ret.out]_vars

\* the part of C21 that is about the service alone
ServiceQueryKeepsOrder ==
    [][(ret'.op = "GetClients" /\ ret'.err = "nil" /\ ret'.arg # NilFilter) =>
          /\ PageInOriginalOrder(ret')
          /\ (ret.op = ret'.op /\ ret.arg = ret'.arg) => ret'.out = ret.out]_vars

PoolPath == Len(input) >= Threshold

WorkersGone == \A w \in Workers : workerPC[w] \in {"none", "done"}

\* C7: on the worker-pool path every index is received by at most one
\* worker, no two workers hold the same index, no slot is written twice, and
\* when the call has returned every index has been received and its slot
\* written exactly once.
EachIndexTakenOnce ==
    PoolPath =>
        /\ \A i \in DOMAIN taken : taken[i] <= 1 /\ writes[i] <= 1
        /\ \A v, w \in Workers :
              (v # w /\ workerPC[v] = "work" /\ workerPC[w] = "work") => index[v] # index[w]
        /\ callerPC = "returned" =>
              \A i \in DOMAIN taken : taken[i] = 1 /\ writes[i] = 1

\* two workers are validating different slots at the same time
WitnessWorkShared ==
    /\ PoolPath
    /\ \E v, w \in Workers :
          /\ v # w
          /\ workerPC[v] = "work"
          /\ workerPC[w] = "work"
          /\ taken[index[v]] = 1
          /\ taken[index[w]] = 1

\* C8: when ValidateClientsConcurrent has returned, every worker has exited
\* and every slot has been validated, and the list does not change after
\* the return, on both paths.
ReturnsAfterWorkers ==
    /\ [](callerPC = "returned" =>
             (WorkersGone /\ \A i \in DOMAIN writes : writes[i] >= 1))
    /\ [][callerPC = "returned" => slice' = slice]_vars

\* the pool path has returned: channel closed, wait group at zero
WitnessReturnedAfterWait ==
    /\ PoolPath
    /\ callerPC = "returned"
    /\ closed
    /\ wg = 0
    /\ WorkersGone

\* C9: the list the worker-pool path returns is the list the sequential
\* ValidateClients produces from the same input, whatever the interleaving.
PoolEqualsSequential ==
    (PoolPath /\ callerPC = "returned") => slice = ValidateClients(input)

\* a pool run over more records than workers that changed the list
WitnessPoolChangedList ==
    /\ PoolPath
    /\ callerPC = "returned"
    /\ Len(input) > NumWorkers
    /\ slice # input

\* C10: the producer never finds the job queue full, and with fair
\* scheduling the call eventually returns with every worker gone.
RunsToCompletion ==
    /\ [](callerPC = "send" => Len(jobs) < JobsCap(Len(slice)))
    /\ <>(callerPC = "returned" /\ WorkersGone)

\* the pool path has run to its end: queue drained, every worker done
WitnessPoolDrained ==
    /\ PoolPath
    /\ callerPC = "returned"
    /\ jobs = <<>>
    /\ \A w \in Workers : workerPC[w] = "done"
    /\ \A i \in DOMAIN writes : writes[i] = 1

\* the records a caller holds once the read lock is released: the elements
\* of the list it was handed, or the one record GetClientByID returned
Held(p) ==
    {View(proc[p].list)[k] : k \in 1..proc[p].list.len}
        \cup (IF proc[p].ptr = 0 THEN {} ELSE {proc[p].ptr})

\* C27: a record a caller reads outside the store lock (the list GetClients
\* returned, the record GetClientByID returned, the copy ExportClientsToExcel
\* writes) never shows the valid flag set while one of the four rules rejects
\* its fields, whatever a concurrent ValidateAllClients is doing.
ReadersNeverSeeClearedErrors ==
    \A p \in Procs :
        proc[p].pc = "reading" =>
            \A a \in Held(p) :
                heap[a].IsValid => \A f \in Fields : RuleOf(heap[a])[f].valid

\* C28: the list GetClients returned for no filter stays as it was when the
\* read lock was released: the same records in the same order, whatever
\* DeleteClient or UpdateClient calls run while the caller goes through it.
ReturnedListIsASnapshot ==
    \A p \in Procs :
        (proc[p].op = "GetClients" /\ proc[p].arg = NilFilter /\ proc[p].pc = "reading")
            => View(proc[p].list) = proc[p].snap

\* what an accepted upload leaves: its records validated and reconciled
UploadOf(file) == Ingested[file][MaxClock].checked

AcceptedUploads ==
    {UploadOf(file) : file \in {f \in ConcurrentFiles :
                                   StructureError[f] = "nil" /\ ReadError[f] = "nil"}}

\* C29: with uploads and reads running side by side, whoever holds the read
\* lock finds in the store the empty list it started with or the complete
\* validated and reconciled records of one upload, and the identifier
\* counter of that same list.
StoreIsOneWholeUpload ==
    mu.r # {} =>
        /\ Deref(sClients) \in {<<>>} \cup AcceptedUploads
        /\ sLastID = MaxIDOf(Deref(sClients))

\* a reader holds the lock over one upload while the upload of another file
\* has its records ready and waits for the lock
WitnessReaderDuringUpload ==
    \E p, q \in Procs :
        /\ p \in mu.r
        /\ Deref(sClients) \in AcceptedUploads
        /\ At(q, "LoadClientsFromExcel", "lock")
        /\ Deref(proc[q].list) \in AcceptedUploads \ {Deref(sClients)}

\* a Create call that has returned without error
Created(p) == At(p, "Create", "returned") /\ proc[p].err = "nil"

\* C30: with Create calls of the repository running side by side, the scan
\* for the key and the insert are one step to every other call: no two
\* stored records share a key, every record sits under its own identifier,
\* a call that returned without error finds its record stored under the
\* identifier it was given, and two calls that returned without error were
\* given different identifiers and carried different keys.
ConcurrentCreateIsAtomic ==
    /\ UniqueKeysIn(repoClients)
    /\ \A i \in DOMAIN repoClients : repoClients[i].ID = i
    /\ \A p \in Procs :
          Created(p) => /\ proc[p].ptr \in DOMAIN repoClients
                        /\ repoClients[proc[p].ptr].Clave = proc[p].arg.Clave
    /\ \A p, q \in Procs :
          (p # q /\ Created(p) /\ Created(q))
              => /\ proc[p].ptr # proc[q].ptr
                 /\ proc[p].arg.Clave # proc[q].arg.Clave

\* one call is past the scan and about to insert while another call with
\* the same key waits for the mutex
WitnessCreateWaitsForInsert ==
    \E p, q \in Procs :
        /\ At(p, "Create", "insert")
        /\ mu.w = p
        /\ At(q, "Create", "lock")
        /\ proc[q].arg.Clave = proc[p].arg.Clave
        /\ proc[q].arg # proc[p].arg

====
